---- MODULE Spec2Model ----
(***************************************************************************)
(* Media session discovery of media-control-raycast:                       *)
(* getCurrentMediaSession (src/src/utils/mediaUtils.ts) writes             *)
(* GET_MEDIA_SESSION_SCRIPT to a temp file, runs it under `powershell`,    *)
(* and parses the one JSON object the script prints.                       *)
(*                                                                         *)
(* Strings are sequences of tokens.  A token is an atomic piece of text    *)
(* ("Song", " - ", "YouTube", "Google Chrome", ...); the empty string is   *)
(* <<>>.  Substring search, regular-expression matching, ToLower and Trim  *)
(* are computed on the token sequence.  The token alphabet is chosen so    *)
(* that no pattern of the script matches inside a token or across a token  *)
(* boundary in a way the token-level matcher would miss.                   *)
(***************************************************************************)
EXTENDS Integers, Sequences, FiniteSets, TLC

\* ------------------------------------------------------------------ bounds
\* At most this many transport (SMTC) sessions exist in one discovery cycle.
MaxSessions == 2
\* At most this many processes own a titled main window in one cycle.
MaxWindows == 2
\* At most this many invocations of the exported functions overlap.
MaxCalls == 2
\* Math.random() in a temp file name yields one of this many values.
MaxRandom == 1
\* At most this many refreshes and action handlers of the view overlap.
MaxTasks == 2

\* ------------------------------------------------------------ text helpers
\* $null / JavaScript null where a string is expected: a reserved one-token text.
Null == <<"<null>">>

\* The red-circle glyph U+1F534 as one token.
RedCircle == "U+1F534"

\* Em dash U+2014 surrounded by spaces, as one token.
EmDash == " U+2014 "

\* En dash U+2013 surrounded by spaces, as one token.
EnDash == " U+2013 "

\* A bracketed 11-character video id, and the id inside the brackets.
VideoIdToken == "[dQw4w9WgXcQ]"
VideoIdText == "dQw4w9WgXcQ"

\* String.ToLower() / toLowerCase() on one token.
ToLowerTok(t) ==
    CASE t = "Song" -> "song"
      [] t = "Artist" -> "artist"
      [] t = "Video" -> "video"
      [] t = "Channel" -> "channel"
      [] t = "Live" -> "live"
      [] t = "LIVE" -> "live"
      [] t = "YouTube" -> "youtube"
      [] t = "Google Chrome" -> "google chrome"
      [] t = "Mozilla Firefox" -> "mozilla firefox"
      [] t = "Microsoft" -> "microsoft"
      [] t = "Edge" -> "edge"
      [] t = "Brave" -> "brave"
      [] t = "Zen" -> "zen"
      [] t = " Browser" -> " browser"
      [] t = "Spotify" -> "spotify"
      [] t = " Premium" -> " premium"
      [] t = " Free" -> " free"
      [] t = "New Tab" -> "new tab"
      [] t = "Untitled" -> "untitled"
      [] t = "Chrome" -> "chrome"
      [] t = "MS" -> "ms"
      [] t = "VLC" -> "vlc"
      [] t = "VLC media player" -> "vlc media player"
      [] t = "Windows Media Player" -> "windows media player"
      [] t = "iTunes" -> "itunes"
      [] t = VideoIdToken -> "[dqw4w9wgxcq]"
      [] OTHER -> t

ToLower(s) == [i \in 1..Len(s) |-> ToLowerTok(s[i])]

\* s contains sub as a contiguous piece (String.Contains / an escaped
\* literal under -match).
Contains(s, sub) ==
    \E i \in 1..(Len(s) + 1) :
        /\ i + Len(sub) - 1 <= Len(s)
        /\ SubSeq(s, i, i + Len(sub) - 1) = sub

EndsWith(s, suffix) ==
    /\ Len(suffix) <= Len(s)
    /\ SubSeq(s, Len(s) - Len(suffix) + 1, Len(s)) = suffix

IsSpace(t) == t = " "

\* String.Trim(): drop leading and trailing white-space tokens.
RECURSIVE TrimLeft(_)
TrimLeft(s) == IF s # <<>> /\ IsSpace(Head(s)) THEN TrimLeft(Tail(s)) ELSE s

RECURSIVE TrimRight(_)
TrimRight(s) ==
    IF s # <<>> /\ IsSpace(s[Len(s)]) THEN TrimRight(SubSeq(s, 1, Len(s) - 1)) ELSE s

Trim(s) == TrimRight(TrimLeft(s))

\* The regular expression '(?i)live|<red circle>' applied to a title.
MatchesLive(title) ==
    \E i \in 1..Len(title) : ToLowerTok(title[i]) = "live" \/ title[i] = RedCircle

\* Largest index j >= 2 at which `tail` occurs in the lowered title so that
\* it ends the title; 0 if there is none.  This is the match of
\* '^(.+)<tail>$' under the case-insensitive -match: group 1 is the text
\* before position j.
TailAt(title, tail) ==
    LET n == Len(title) - Len(tail) + 1
    IN  IF n >= 2 /\ EndsWith(ToLower(title), tail) THEN n ELSE 0

\* ------------------------------------------------------ Wait-AsyncOperation
\* Defaults of the detection script's Wait-AsyncOperation parameters.
TimeoutMs == 5000
PollMs == 50

\* An awaited WinRT operation, by what its Status reads over time: 'Started'
\* during the first `after` sleeps of the waiter and `final` from then on.
\* final = "Started" is an operation that never leaves 'Started'.
OpCompleted == [ after |-> 0, final |-> "Completed" ]

OpHung == [ after |-> 0, final |-> "Started" ]

\* $Operation.Status.ToString() after k sleeps.
StatusAt(op, k) == IF k < op.after THEN "Started" ELSE op.final

\* Mutant of WaitLoop: the loop tests `$elapsed -le $TimeoutMs`.
RECURSIVE WaitLoop_LessOrEqual(_, _, _, _, _)
WaitLoop_LessOrEqual(op, timeoutMs, pollMs, elapsed, k) ==
    IF StatusAt(op, k) = "Started" /\ elapsed <= timeoutMs
    THEN WaitLoop_LessOrEqual(op, timeoutMs, pollMs, elapsed + pollMs, k + 1)
    ELSE k

\* The while loop of Wait-AsyncOperation from $elapsed = elapsed after k
\* sleeps: the number of sleeps done when the loop is left.
RECURSIVE WaitLoop(_, _, _, _, _)
WaitLoop(op, timeoutMs, pollMs, elapsed, k) ==
    IF StatusAt(op, k) = "Started" /\ elapsed < timeoutMs
    THEN WaitLoop(op, timeoutMs, pollMs, elapsed + pollMs, k + 1)
    ELSE k

\* Wait-AsyncOperation: the number of sleeps, and whether GetResults() is
\* returned (status 'Completed' after the loop) or $null.
WaitAsyncOperation(op, timeoutMs, pollMs) ==
    LET k == WaitLoop(op, timeoutMs, pollMs, 0, 0)
    IN  [ polls |-> k, completed |-> StatusAt(op, k) = "Completed" ]

\* ------------------------------------------------- transport-session adapter
\* $appLower -match 'chrome|brave|edge|firefox|zen'
IsBrowserAppId(appId) ==
    \E i \in 1..Len(appId) :
        ToLowerTok(appId[i]) \in {"chrome", "brave", "edge", "firefox", "zen"}

\* $appLower -match 'spotify'
IsSpotifyAppId(appId) ==
    \E i \in 1..Len(appId) : ToLowerTok(appId[i]) = "spotify"

\* $bonusFg of the SMTC loop: 12 when a foreground process name is known and
\* the lowered application id matches [regex]::Escape of it.
SmtcFgBonus(appId, fg) ==
    IF fg # Null /\ fg # <<>> /\ Contains(ToLower(appId), fg) THEN 12 ELSE 0

\* $bonusLive of the SMTC loop.
SmtcLiveBonus(title) == IF MatchesLive(title) THEN 20 ELSE 0

\* The candidate the SMTC loop builds for session s once its title is known
\* to be non-empty: $sessionInfo and its score.
\*   s.title, s.artist, s.album are the media properties, s.appId the
\*   SourceAppUserModelId, s.status the playback status.
SmtcCandidateOf(s, fg) ==
    LET titleSm == Trim(s.title)
        artistSm == Trim(s.artist)
        albumSm == Trim(s.album)
        isPlaying == (s.status = "Playing")
        isBrowser == IsBrowserAppId(s.appId)
        isSpotify == IsSpotifyAppId(s.appId)
        sessionInfo ==
            [ Title |-> titleSm,
              Artist |-> IF artistSm # <<>> THEN artistSm
                         ELSE IF isSpotify THEN <<"Spotify">>
                         ELSE IF isBrowser THEN <<"YouTube">>
                         ELSE s.appId,
              Album |-> IF albumSm # <<>> THEN albumSm ELSE Null,
              AppName |-> s.appId,
              IsPlaying |-> isPlaying,
              CanPlay |-> TRUE,
              CanPause |-> TRUE,
              CanSkipNext |-> TRUE,
              CanSkipPrevious |-> TRUE ]
        base == IF isSpotify THEN 80 ELSE IF isBrowser THEN 75 ELSE 78
        bonusLive == SmtcLiveBonus(titleSm)
        penaltyPaused == IF isPlaying THEN 0 ELSE 20
        bonusFg == SmtcFgBonus(s.appId, fg)
    IN  [ Score |-> base + bonusLive + bonusFg - penaltyPaused,
          Session |-> sessionInfo,
          adapter |-> "smtc",
          bonusLive |-> bonusLive,
          bonusFg |-> bonusFg ]

\* $props of session s: whether the wait on TryGetMediaPropertiesAsync()
\* returned the properties; otherwise $props is $null and every property of
\* it reads as empty.
PropsFetched(s) == WaitAsyncOperation(s.propsOp, TimeoutMs, PollMs).completed

\* $titleSm of session s.
TitleSm(s) == IF PropsFetched(s) THEN Trim(s.title) ELSE <<>>

\* Whether the loop body throws for session s (and its catch {} is entered):
\* GetPlaybackInfo() throws, or the body reaches the `(if ...)` entries of the
\* hashtable on a host that dispatches them as a command.
SmtcSessionThrows(s, condIsCommand) ==
    \/ s.info = "throws"
    \/ TitleSm(s) # <<>> /\ condIsCommand

\* Mutant of SmtcSessionCandidates: the empty-title `continue` is missing.
SmtcSessionCandidates_NoTitleCheck(s, fg, condIsCommand) ==
    IF s.info = "throws" \/ condIsCommand THEN <<>> ELSE << SmtcCandidateOf(s, fg) >>

\* The body of `foreach ($s in $sessions) { try { ... } catch {} }` for one
\* session s: the candidates it appends (none or one).
\*   A session whose trimmed title is empty is skipped (continue).
\*   condIsCommand: the hashtable literal of the loop writes its Artist and
\*   Album entries as `(if (...) {...} elseif ...)`.  A host that reads `if`
\*   after `(` as a command name raises CommandNotFound there, which the
\*   per-session catch {} swallows: the session contributes nothing.
\*   A session whose GetPlaybackInfo() throws, or whose property fetch does
\*   not complete (so that $titleSm is empty), contributes nothing either.
SmtcSessionCandidates(s, fg, condIsCommand) ==
    IF s.info = "throws" THEN <<>>
    ELSE IF TitleSm(s) = <<>> THEN <<>>
    ELSE IF condIsCommand THEN <<>>
    ELSE << SmtcCandidateOf(s, fg) >>

\* Mutant of SmtcCandidates: one try/catch around the whole loop, so that
\* the first session that throws ends the loop.
RECURSIVE SmtcCandidates_TryAroundLoop(_, _, _)
SmtcCandidates_TryAroundLoop(ss, fg, condIsCommand) ==
    IF ss = <<>> THEN <<>>
    ELSE IF SmtcSessionThrows(Head(ss), condIsCommand) THEN <<>>
    ELSE SmtcSessionCandidates(Head(ss), fg, condIsCommand)
         \o SmtcCandidates_TryAroundLoop(Tail(ss), fg, condIsCommand)

\* The whole SMTC loop over the sessions the manager returned: a session
\* that throws is caught inside the loop and the loop goes on.
RECURSIVE SmtcCandidates(_, _, _)
SmtcCandidates(ss, fg, condIsCommand) ==
    IF ss = <<>> THEN <<>>
    ELSE SmtcSessionCandidates(Head(ss), fg, condIsCommand)
         \o SmtcCandidates(Tail(ss), fg, condIsCommand)

\* The sleeps of the property waits of the loop, one entry per session whose
\* body reaches the wait.
RECURSIVE SmtcWaits(_)
SmtcWaits(ss) ==
    IF ss = <<>> THEN <<>>
    ELSE (IF Head(ss).info = "throws" THEN <<>>
          ELSE << WaitAsyncOperation(Head(ss).propsOp, TimeoutMs, PollMs).polls >>)
         \o SmtcWaits(Tail(ss))

\* ----------------------------------------------------- window-title adapter
\* $title -match $appConf.pausedPattern for the $mediaApps entry of the
\* lowered process name; FALSE when the registry has no entry (as for zen).
IsPausedTitle(processName, title) ==
    LET t == ToLower(title)
        last == IF t = <<>> THEN "" ELSE t[Len(t)]
        youtubeBefore(k) == \E i \in 1..(k - 1) : t[i] = "youtube"
    IN  CASE processName = <<"spotify">> ->
                t \in { <<"spotify">>, <<"spotify", " premium">>, <<"spotify", " free">> }
          [] processName = <<"chrome">> ->
                last = "google chrome" /\ youtubeBefore(Len(t))
          [] processName = <<"brave">> ->
                last = "brave" /\ youtubeBefore(Len(t))
          [] processName = <<"ms", "edge">> ->
                /\ last = "edge"
                /\ \E m \in 1..(Len(t) - 1) : t[m] = "microsoft" /\ youtubeBefore(m)
          [] processName = <<"firefox">> ->
                last = "mozilla firefox" /\ youtubeBefore(Len(t))
          [] processName = <<"vlc">> -> t = <<"vlc media player">>
          [] processName = <<"wmplayer">> -> t = <<"windows media player">>
          [] processName = <<"itunes">> -> t = <<"itunes">>
          [] OTHER -> FALSE

\* $fgBonus of the window loop: 12 when the lowered process name equals the
\* foreground process name.
WindowFgBonus(processName, fg) ==
    IF fg # Null /\ fg # <<>> /\ processName = fg THEN 12 ELSE 0

\* '^(.+) - (.+)$' on a Spotify title: the index of the " - " that separates
\* group 1 (greedy) from group 2, or 0 when the title does not match.
SpotifySplitAt(title) ==
    LET J == { j \in 2..(Len(title) - 1) : title[j] = " - " }
    IN  IF J = {} THEN 0 ELSE CHOOSE j \in J : \A k \in J : k <= j

\* '^(.+) - YouTube - Microsoft.*Edge$': the index where " - YouTube - Microsoft"
\* starts for the greedy group 1, or 0.
EdgeTitleAt(title) ==
    LET t == ToLower(title)
        J == { j \in 2..(Len(t) - 4) :
                 /\ SubSeq(t, j, j + 3) = <<" - ", "youtube", " - ", "microsoft">>
                 /\ t[Len(t)] = "edge" }
    IN  IF J = {} THEN 0 ELSE CHOOSE j \in J : \A k \in J : k <= j

\* '^(.+) - YouTube \s*[—–\-]\s*Zen( Browser)?$'
ZenTitleAt(title) ==
    LET ats == { TailAt(title, <<" - ", "youtube", d, "zen">> \o b) :
                    d \in {" - ", EmDash, EnDash}, b \in {<<>>, <<" browser">>} }
    IN  CHOOSE j \in ats : \A k \in ats : k <= j

\* One of the per-browser blocks of the window loop: the candidate built from
\* a title whose group 1 ends before position at.  baseScore and liveBonus
\* are the block's own numbers.
YouTubeCandidate(process, at, isPausedTitle, fgBonus, baseScore, liveBonus) ==
    LET videoTitle == SubSeq(process.MainWindowTitle, 1, at - 1)
        isPlaying == ~isPausedTitle
        live == IF MatchesLive(videoTitle) THEN liveBonus ELSE 0
    IN  [ Score |-> baseScore + live + fgBonus - (IF isPlaying THEN 0 ELSE 20),
          Session |-> [ Title |-> videoTitle,
                        Artist |-> <<"YouTube">>,
                        Album |-> Null,
                        AppName |-> process.ProcessName,
                        IsPlaying |-> isPlaying,
                        CanPlay |-> TRUE,
                        CanPause |-> TRUE,
                        CanSkipNext |-> TRUE,
                        CanSkipPrevious |-> TRUE ],
          adapter |-> "window",
          bonusLive |-> live,
          bonusFg |-> fgBonus ]

\* The Spotify block of the window loop.
SpotifyCandidate(process, at, isPausedTitle, fgBonus) ==
    LET title == process.MainWindowTitle
        artist == SubSeq(title, 1, at - 1)
        songTitle == SubSeq(title, at + 1, Len(title))
        isPlaying == ~isPausedTitle
        live == IF MatchesLive(songTitle) THEN 5 ELSE 0
    IN  [ Score |-> 80 + live + fgBonus - (IF isPlaying THEN 0 ELSE 20),
          Session |-> [ Title |-> songTitle,
                        Artist |-> artist,
                        Album |-> Null,
                        AppName |-> process.ProcessName,
                        IsPlaying |-> isPlaying,
                        CanPlay |-> TRUE,
                        CanPause |-> TRUE,
                        CanSkipNext |-> TRUE,
                        CanSkipPrevious |-> TRUE ],
          adapter |-> "window",
          bonusLive |-> live,
          bonusFg |-> fgBonus ]

\* The body of `foreach ($process in $processes) { ... }` for one process:
\* the candidates it appends (none or one).
WindowCandidatesOf(process, fg) ==
    LET processName == ToLower(process.ProcessName)
        title == process.MainWindowTitle
        isPausedTitle == IsPausedTitle(processName, title)
        fgBonus == WindowFgBonus(processName, fg)
        chromeAt == TailAt(title, <<" - ", "youtube", " - ", "google chrome">>)
        braveAt == TailAt(title, <<" - ", "youtube", " - ", "brave">>)
        firefoxAt == TailAt(title, <<" - ", "youtube", " - ", "mozilla firefox">>)
    IN  CASE processName = <<"spotify">> /\ SpotifySplitAt(title) # 0 ->
                << SpotifyCandidate(process, SpotifySplitAt(title), isPausedTitle, fgBonus) >>
          [] processName = <<"brave">> /\ braveAt # 0 ->
                << YouTubeCandidate(process, braveAt, isPausedTitle, fgBonus, 90, 5) >>
          [] processName = <<"chrome">> /\ chromeAt # 0 ->
                << YouTubeCandidate(process, chromeAt, isPausedTitle, fgBonus, 90, 5) >>
          [] processName = <<"ms", "edge">> /\ EdgeTitleAt(title) # 0 ->
                << YouTubeCandidate(process, EdgeTitleAt(title), isPausedTitle, fgBonus, 90, 5) >>
          [] processName = <<"firefox">> /\ firefoxAt # 0 ->
                << YouTubeCandidate(process, firefoxAt, isPausedTitle, fgBonus, 75, 20) >>
          [] processName = <<"zen">> /\ ZenTitleAt(title) # 0 ->
                << YouTubeCandidate(process, ZenTitleAt(title), isPausedTitle, fgBonus, 77, 20) >>
          [] OTHER -> <<>>

\* Mutant of WindowCandidates: once a foreground process is known, only its
\* own windows are examined.
RECURSIVE WindowCandidates_ForegroundOnly(_, _)
WindowCandidates_ForegroundOnly(ps, fg) ==
    IF ps = <<>> THEN <<>>
    ELSE (IF fg = Null \/ ToLower(Head(ps).ProcessName) = fg
          THEN WindowCandidatesOf(Head(ps), fg)
          ELSE <<>>)
         \o WindowCandidates_ForegroundOnly(Tail(ps), fg)

\* The whole window loop over the processes that own a titled main window.
RECURSIVE WindowCandidates(_, _)
WindowCandidates(ps, fg) ==
    IF ps = <<>> THEN <<>>
    ELSE WindowCandidatesOf(Head(ps), fg) \o WindowCandidates(Tail(ps), fg)

\* ------------------------------------------------------------- selection
\* A largest Score among the candidates.
MaxScore(cs) == CHOOSE m \in { cs[i].Score : i \in 1..Len(cs) } :
                    \A i \in 1..Len(cs) : cs[i].Score <= m

\* The positions `Sort-Object -Property Score -Descending | Select-Object
\* -First 1` can deliver.  The candidates are hashtables @{ Score; Session }.
\*   sortIgnoresKey = FALSE: the host resolves the hashtable key Score as
\*     the sort property; the first element has a largest Score, and which
\*     of several equal ones comes first is not fixed by the sort.
\*   sortIgnoresKey = TRUE: the host looks Score up as an object property, a
\*     hashtable has none, every element compares equal and the order of the
\*     output is not fixed by the sort.
BestPositions(cs, sortIgnoresKey) ==
    IF sortIgnoresKey
    THEN 1..Len(cs)
    ELSE { i \in 1..Len(cs) : cs[i].Score = MaxScore(cs) }

\* ------------------------------------------------------- result processing
\* JavaScript undefined.
Undefined == Null

\* appName.toLowerCase().includes(...) of parseMediaInfo.
IsYouTubeApp(appName) ==
    \E i \in 1..Len(appName) :
        ToLowerTok(appName[i]) \in {"chrome", "firefox", "edge", "brave", "youtube"}

\* title with the first occurrence of token tok removed (String.replace
\* with a string pattern).
RECURSIVE RemoveFirst(_, _)
RemoveFirst(title, tok) ==
    IF title = <<>> THEN <<>>
    ELSE IF Head(title) = tok THEN Tail(title)
    ELSE <<Head(title)>> \o RemoveFirst(Tail(title), tok)

parseMediaInfo(title, artist, appName) ==
    LET isYouTube == IsYouTubeApp(appName)
        truthy(x) == x # Null /\ x # <<>>
        isLive == MatchesLive(title) \/ (\E i \in 1..Len(artist) : ToLowerTok(artist[i]) = "live")
        hasId == \E i \in 1..Len(title) : title[i] = VideoIdToken
        videoTitle == IF hasId THEN Trim(RemoveFirst(title, VideoIdToken)) ELSE title
        channelName == IF ToLower(Trim(artist)) = <<"youtube">> THEN Undefined ELSE artist
    IN  IF isYouTube /\ truthy(title) /\ truthy(artist)
        THEN [ title |-> IF videoTitle # <<>> THEN videoTitle ELSE <<"Unknown Video">>,
               artist |-> IF channelName # Undefined THEN channelName ELSE <<"Unknown Channel">>,
               channelName |-> channelName,
               videoId |-> IF hasId THEN <<VideoIdText>> ELSE Undefined,
               isLive |-> isLive ]
        ELSE [ title |-> IF truthy(title) THEN title ELSE <<"Unknown Title">>,
               artist |-> IF truthy(artist) THEN artist ELSE <<"Unknown Artist">>,
               channelName |-> Undefined,
               videoId |-> Undefined,
               isLive |-> Undefined ]

\* s.toLowerCase().includes(w) for a word w that is one token of the text.
IncludesWord(s, w) == \E i \in 1..Len(s) : ToLowerTok(s[i]) = w

\* determineSourceType(appName, title, artist); a null title or artist is
\* read as "".
determineSourceType(appName, title, artist) ==
    LET lowerTitle == IF title = Null THEN <<>> ELSE ToLower(title)
        lowerArtist == IF artist = Null THEN <<>> ELSE ToLower(artist)
        isBrowser == \E w \in {"chrome", "brave", "edge", "firefox", "zen", "vivaldi", "opera"} :
                         IncludesWord(appName, w)
        looksLikeYouTube ==
            \/ Contains(lowerTitle, <<" - ", "youtube", " - ">>)
            \/ lowerArtist = <<"youtube">>
            \/ IncludesWord(lowerTitle, "youtube")
    IN  IF \/ looksLikeYouTube
           \/ \E w \in {"youtube", "netflix", "disney", "prime", "hulu", "vlc"} :
                  IncludesWord(appName, w)
           \/ (isBrowser /\ looksLikeYouTube)
           \/ IncludesWord(lowerTitle, "watch")
           \/ IncludesWord(lowerTitle, "video")
        THEN "video"
        ELSE IF \/ IncludesWord(lowerTitle, "podcast")
                \/ IncludesWord(lowerArtist, "podcast")
                \/ IncludesWord(lowerTitle, "episode")
                \/ IncludesWord(appName, "podcast")
        THEN "podcast"
        ELSE IF \E w \in {"spotify", "apple music", "itunes", "amazon music", "deezer",
                          "tidal", "soundcloud", "foobar", "winamp", "musicbee"} :
                    IncludesWord(appName, w)
        THEN "music"
        ELSE "unknown"

\* getCurrentMediaSession resolving to null.
NoSession == [ none |-> TRUE ]

\* The MediaSession object getCurrentMediaSession builds from the parsed
\* JSON of the script's output.
MediaSessionOf(sessionData) ==
    LET mediaInfo == parseMediaInfo(sessionData.Title, sessionData.Artist, sessionData.AppName)
    IN  [ title |-> mediaInfo.title,
          artist |-> mediaInfo.artist,
          album |-> sessionData.Album,
          appName |-> sessionData.AppName,
          sourceType |-> determineSourceType(sessionData.AppName, sessionData.Title,
                                             sessionData.Artist),
          isPlaying |-> sessionData.IsPlaying,
          canPlay |-> sessionData.CanPlay,
          canPause |-> sessionData.CanPause,
          canSkipNext |-> sessionData.CanSkipNext,
          canSkipPrevious |-> sessionData.CanSkipPrevious,
          channelName |-> mediaInfo.channelName,
          videoId |-> mediaInfo.videoId,
          isLive |-> mediaInfo.isLive ]

\* ------------------------------------------------------------ environment
\* Transport sessions the session manager can report in a cycle.  info is
\* what GetPlaybackInfo() does ("ok" or "throws"), propsOp the operation that
\* TryGetMediaPropertiesAsync() returns; title, artist and album are the
\* properties a completed fetch delivers.
SessionPool ==
    << [ appId |-> <<"Spotify", ".exe">>, title |-> <<"Song">>,
         artist |-> <<>>, album |-> <<>>, status |-> "Playing",
         info |-> "ok", propsOp |-> OpCompleted ],
       [ appId |-> <<"Spotify", ".exe">>, title |-> <<"Live", "Song">>,
         artist |-> <<"Artist">>, album |-> <<>>, status |-> "Paused",
         info |-> "ok", propsOp |-> OpCompleted ],
       [ appId |-> <<"Chrome">>, title |-> <<"LIVE", "Video">>,
         artist |-> <<>>, album |-> <<>>, status |-> "Playing",
         info |-> "ok", propsOp |-> OpCompleted ],
       [ appId |-> <<"MS", "Edge">>, title |-> <<"Video">>,
         artist |-> <<"Channel">>, album |-> <<>>, status |-> "Paused",
         info |-> "ok", propsOp |-> OpCompleted ],
       [ appId |-> <<"VLC", ".exe">>, title |-> <<" ">>,
         artist |-> <<>>, album |-> <<>>, status |-> "Playing",
         info |-> "ok", propsOp |-> OpCompleted ],
       [ appId |-> <<"Chrome">>, title |-> <<VideoIdToken>>,
         artist |-> <<"Channel">>, album |-> <<>>, status |-> "Playing",
         info |-> "ok", propsOp |-> OpCompleted ] >>

\* Processes with a non-empty main window title, in Get-Process order (by
\* process name).
ProcessPool ==
    << [ ProcessName |-> <<"brave">>,
         MainWindowTitle |-> <<"Video", " - ", "YouTube", " - ", "Brave">> ],
       [ ProcessName |-> <<"chrome">>,
         MainWindowTitle |-> <<"Video", " - ", "YouTube", " - ", "Google Chrome">> ],
       [ ProcessName |-> <<"chrome">>,
         MainWindowTitle |-> <<"LIVE", "Video", " - ", "YouTube", " - ", "Google Chrome">> ],
       [ ProcessName |-> <<"firefox">>,
         MainWindowTitle |-> <<"Live", "Video", " - ", "YouTube", " - ", "Mozilla Firefox">> ],
       [ ProcessName |-> <<"ms", "edge">>,
         MainWindowTitle |-> <<"Video", " - ", "YouTube", " - ", "Microsoft", " ", "Edge">> ],
       [ ProcessName |-> <<"notepad">>,
         MainWindowTitle |-> <<"Untitled">> ],
       [ ProcessName |-> <<"Spotify">>,
         MainWindowTitle |-> <<"Spotify">> ],
       [ ProcessName |-> <<"Spotify">>,
         MainWindowTitle |-> <<"Artist", " - ", "Song">> ],
       [ ProcessName |-> <<"zen">>,
         MainWindowTitle |-> <<"Video", " - ", "YouTube", EmDash, "Zen", " Browser">> ] >>

\* The process that owns the foreground window: its name, or Null when there
\* is no foreground window or its process cannot be read.
ForegroundPool == { Null, <<"Spotify">>, <<"chrome">>, <<"edge">> }

\* The elements of pool at the positions in I, in pool order.
Pick(pool, I) ==
    LET idx == SelectSeq([i \in 1..Len(pool) |-> i], LAMBDA i : i \in I)
    IN  [k \in 1..Len(idx) |-> pool[idx[k]]]

\* ----------------------------------------------------------------- state
VARIABLES
    sessions,               \* what GetSessions() returns
    processes,              \* $processes
    foregroundProcess,      \* name of the process owning the foreground window
    condIsCommand,          \* host: `(if ...)` is dispatched as a command
    sortIgnoresKey,         \* host: Sort-Object -Property misses hashtable keys
    mgrOp,                  \* the operation RequestAsync() returns
    pc,                     \* position of the getCurrentMediaSession call
    ForegroundProcessName,  \* $ForegroundProcessName
    candidates,             \* $candidates
    best,                   \* $best: <<>> or one candidate
    stdout,                 \* the script's output: <<>> or one JSON object
    result,                 \* what getCurrentMediaSession resolves to
    waits,                  \* sleeps of each Wait-AsyncOperation call, in order
    fault,                  \* what went wrong in the call, "none" if nothing
    outcome,                \* "pending", "resolved" or "rejected"
    action,                 \* controlMedia: its argument
    currentSession,         \* controlMedia: what GetCurrentSession() returns
    kbdThrows,              \* controlMedia: the keybd_event call throws
    ctl,                    \* controlMedia: the state of the call
    calls,                  \* overlapping invocations: kind, position, psPath
    files,                  \* the .ps1 files in os.tmpdir(), with their writer
    ui,                     \* the view: mediaSession, volume, isLoading
    tasks,                  \* the view: refreshes and handlers in flight
    test,                   \* the run of test-actual-script.ps1
    device,                 \* dwVolume of the wave-out device: two 16-bit words
    vol                     \* a setVolume / getVolume sequence

\* The variables of controlMedia.
controlVars == << action, currentSession, kbdThrows, ctl >>

\* The temp files and the invocations that use them.
fileVars == << calls, files >>

\* The state of the MediaControl view and its asynchronous work.
uiVars == << ui, tasks >>

\* The run of the stand-alone detection script.
testVars == << test >>

\* The wave-out device and the calls of setVolume and getVolume.
volumeVars == << device, vol >>

\* Everything that is not part of a getCurrentMediaSession call.
notDiscovery == << controlVars, fileVars, uiVars, testVars, volumeVars >>

vars == << sessions, processes, foregroundProcess, condIsCommand, sortIgnoresKey,
           mgrOp, pc, ForegroundProcessName, candidates, best, stdout, result,
           waits, fault, outcome, action, currentSession, kbdThrows, ctl,
           calls, files, ui, tasks, test, device, vol >>

env == << sessions, processes, foregroundProcess, condIsCommand, sortIgnoresKey,
          mgrOp >>

\* test-actual-script.ps1 has not been run.
TestNotRun == test = [ pc |-> "start", candidates |-> <<>>, stdout |-> <<>> ]

\* A getCurrentMediaSession call that has not started.
CallNotStarted ==
    /\ pc = "start"
    /\ ForegroundProcessName = Null
    /\ candidates = <<>>
    /\ best = <<>>
    /\ stdout = <<>>
    /\ result = NoSession
    /\ waits = <<>>
    /\ fault = "none"
    /\ outcome = "pending"

\* A controlMedia call that has not started; target 0 is $null.
ControlNotStarted ==
    ctl = [ pc |-> "start", target |-> 0, usedSmTc |-> FALSE, sent |-> <<>>,
            keys |-> <<>>, appCommands |-> <<>>, players |-> <<>>,
            stdout |-> <<>>, result |-> FALSE,
            fault |-> "none", outcome |-> "pending" ]

\* psPath = null.
NoPath == [ prefix |-> "<null>", rnd |-> 0 ]

\* An invocation slot that has not been used: i is the loop counter of
\* createTempPsFile, wrote the paths the invocation has written.
IdleCall == [ kind |-> "none", pc |-> "idle", i |-> 0, psPath |-> NoPath, wrote |-> {} ]

\* No invocation is tracked and the temp directory holds no script.
NoCalls ==
    /\ calls = [ c \in 1..MaxCalls |-> IdleCall ]
    /\ files = {}

\* mediaSession = null in the view.
NoneDisplayed == "null"

\* volume = null in the view.
NoVolume == -1

\* No setVolume or getVolume call has been made; the device is at level 0
\* (dwVolume = hi * 65536 + lo, the right and the left channel).
IdleVolumeCall ==
    [ pc |-> "idle", arg |-> NoVolume, setOk |-> FALSE, got |-> NoVolume, getOk |-> FALSE ]

NoVolumeCall ==
    /\ vol = IdleVolumeCall
    /\ device = [ hi |-> 0, lo |-> 0 ]

\* A slot for a refresh or handler that is not running.  older and stale
\* record start order: older holds the slots whose refresh was already in
\* flight when this one started, stale is set once a refresh that started
\* later has been applied.
IdleTask == [ kind |-> "none", pc |-> "idle", session |-> NoneDisplayed,
              volume |-> NoVolume, older |-> {}, stale |-> FALSE ]

\* The view as mounted: the useState initial values, nothing in flight.
ViewMounted ==
    /\ ui = [ mediaSession |-> NoneDisplayed, volume |-> NoVolume, isLoading |-> TRUE ]
    /\ tasks = [ t \in 1..MaxTasks |-> IdleTask ]

\* No controlMedia call is made.
NoControlCall ==
    /\ action = "none"
    /\ currentSession = 0
    /\ kbdThrows = FALSE
    /\ ControlNotStarted

\* $mgr: the sessions GetSessions() returns, or none when the wait on
\* RequestAsync() did not return a manager.
ManagerSessions ==
    IF WaitAsyncOperation(mgrOp, TimeoutMs, PollMs).completed THEN sessions ELSE <<>>

Init ==
    /\ sortIgnoresKey \in BOOLEAN
    /\ condIsCommand \in BOOLEAN
    /\ \E I \in SUBSET (1..Len(SessionPool)) :
          /\ Cardinality(I) <= MaxSessions
          /\ sessions = Pick(SessionPool, I)
    /\ \E I \in SUBSET (1..Len(ProcessPool)) :
          /\ Cardinality(I) <= MaxWindows
          /\ processes = Pick(ProcessPool, I)
    /\ foregroundProcess \in ForegroundPool
    /\ mgrOp = OpCompleted
    /\ CallNotStarted
    /\ NoControlCall
    /\ NoCalls
    /\ ViewMounted
    /\ TestNotRun
    /\ NoVolumeCall

\* Script start: $candidates = @() and the foreground process lookup.
StartScript ==
    /\ pc = "start"
    /\ candidates' = <<>>
    /\ ForegroundProcessName' =
          IF foregroundProcess = Null THEN Null ELSE ToLower(foregroundProcess)
    /\ pc' = "smtc"
    /\ UNCHANGED << notDiscovery, env, best, stdout, result, waits, fault, outcome >>

\* The SMTC block: every session of the manager, in order.
SmtcAdapter ==
    /\ pc = "smtc"
    /\ candidates' =
          candidates \o SmtcCandidates(ManagerSessions, ForegroundProcessName, condIsCommand)
    /\ waits' = waits \o << WaitAsyncOperation(mgrOp, TimeoutMs, PollMs).polls >>
                      \o SmtcWaits(ManagerSessions)
    /\ pc' = "windows"
    /\ UNCHANGED << notDiscovery, env, ForegroundProcessName, best, stdout, result, fault, outcome >>

\* The window loop: every process with a titled main window, in order.
WindowTitleAdapter ==
    /\ pc = "windows"
    /\ candidates' = candidates \o WindowCandidates(processes, ForegroundProcessName)
    /\ pc' = "select"
    /\ UNCHANGED << notDiscovery, env, ForegroundProcessName, best, stdout, result,
                    waits, fault, outcome >>

\* Mutant of SelectBest: the emptiness test reads `$candidates.Count -gt 1`.
SelectBest_CountGreaterOne ==
    /\ pc = "select"
    /\ IF Len(candidates) > 1
       THEN \E i \in BestPositions(candidates, sortIgnoresKey) :
                /\ best' = << candidates[i] >>
                /\ stdout' = << candidates[i].Session >>
       ELSE /\ best' = <<>>
            /\ stdout' = <<>>
    /\ pc' = "parse"
    /\ UNCHANGED << notDiscovery, env, ForegroundProcessName, candidates, result,
                    waits, fault, outcome >>

\* The output step: the best candidate's Session as JSON, or an empty line.
SelectBest ==
    /\ pc = "select"
    /\ IF Len(candidates) > 0
       THEN \E i \in BestPositions(candidates, sortIgnoresKey) :
                /\ best' = << candidates[i] >>
                /\ stdout' = << candidates[i].Session >>
       ELSE /\ best' = <<>>
            /\ stdout' = <<>>
    /\ pc' = "parse"
    /\ UNCHANGED << notDiscovery, env, ForegroundProcessName, candidates, result,
                    waits, fault, outcome >>

\* getCurrentMediaSession after the script has run: parse stdout and build
\* the MediaSession, or resolve to null on empty output.
ReturnSession ==
    /\ pc = "parse"
    /\ result' = IF stdout # <<>> THEN MediaSessionOf(stdout[1]) ELSE NoSession
    /\ pc' = "done"
    /\ outcome' = "resolved"
    /\ UNCHANGED << notDiscovery, env, ForegroundProcessName, candidates, best, stdout, waits, fault >>

Next ==
    \/ StartScript
    \/ SmtcAdapter
    \/ WindowTitleAdapter
    \/ SelectBest
    \/ ReturnSession

Spec == Init /\ [][Next]_vars

\* ------------------------------------------- discovery on a faulty host
\* Transport sessions of a host where native calls can fail or hang: healthy
\* sessions between one whose GetPlaybackInfo() throws, one whose property
\* fetch never completes, one whose fetch completes after three sleeps and
\* one whose fetch ends in status 'Error'.
DiscoverSessionPool ==
    << [ appId |-> <<"VLC", ".exe">>, title |-> <<"Song">>,
         artist |-> <<>>, album |-> <<>>, status |-> "Playing",
         info |-> "throws", propsOp |-> OpCompleted ],
       SessionPool[1],
       [ appId |-> <<"Chrome">>, title |-> <<"Video">>,
         artist |-> <<>>, album |-> <<>>, status |-> "Playing",
         info |-> "ok", propsOp |-> OpHung ],
       SessionPool[4],
       [ appId |-> <<"Spotify", ".exe">>, title |-> <<"Live", "Song">>,
         artist |-> <<"Artist">>, album |-> <<>>, status |-> "Paused",
         info |-> "ok", propsOp |-> [ after |-> 3, final |-> "Completed" ] ],
       [ appId |-> <<"VLC", ".exe">>, title |-> <<"Song">>,
         artist |-> <<"Artist">>, album |-> <<>>, status |-> "Playing",
         info |-> "ok", propsOp |-> [ after |-> 1, final |-> "Error" ] ] >>

\* Windows of that host.
DiscoverProcessPool == << ProcessPool[2], ProcessPool[6], ProcessPool[8] >>

\* What RequestAsync() can return: completed at once, never completing,
\* completing just before, at, and just after the last sleep of the waiter,
\* and failed.
MgrOpPool ==
    { OpCompleted, OpHung,
      [ after |-> (TimeoutMs \div PollMs) - 1, final |-> "Completed" ],
      [ after |-> TimeoutMs \div PollMs, final |-> "Completed" ],
      [ after |-> (TimeoutMs \div PollMs) + 1, final |-> "Completed" ],
      [ after |-> 0, final |-> "Error" ] }

\* Output that is not a JSON text.
Garbage == [ garbage |-> TRUE ]

InitDiscover ==
    /\ sortIgnoresKey \in BOOLEAN
    /\ condIsCommand \in BOOLEAN
    /\ \E I \in SUBSET (1..Len(DiscoverSessionPool)) :
          /\ Cardinality(I) <= MaxSessions
          /\ sessions = Pick(DiscoverSessionPool, I)
    /\ \E I \in SUBSET (1..Len(DiscoverProcessPool)) :
          /\ Cardinality(I) <= MaxWindows
          /\ processes = Pick(DiscoverProcessPool, I)
    /\ foregroundProcess \in { Null, <<"chrome">> }
    /\ mgrOp \in MgrOpPool
    /\ CallNotStarted
    /\ NoControlCall
    /\ NoCalls
    /\ ViewMounted
    /\ TestNotRun
    /\ NoVolumeCall

\* createTempPsFile throws inside the try block: psPath stays null and no
\* script runs.
CreateTempFails ==
    /\ pc = "start"
    /\ fault' = "create"
    /\ pc' = "catch"
    /\ UNCHANGED << notDiscovery, env, ForegroundProcessName, candidates, best, stdout, result,
                    waits, outcome >>

\* execAsync rejects: powershell cannot be started, is killed while the
\* script runs, or exits with a non-zero code.
ExecFails ==
    /\ pc \in {"smtc", "windows", "select", "parse"}
    /\ fault' = "exec"
    /\ pc' = "catch"
    /\ UNCHANGED << notDiscovery, env, ForegroundProcessName, candidates, best, stdout, result,
                    waits, outcome >>

\* The script ends with output that is not a JSON text: JSON.parse throws.
ParseFails ==
    /\ pc = "parse"
    /\ stdout' = << Garbage >>
    /\ fault' = "parse"
    /\ pc' = "catch"
    /\ UNCHANGED << notDiscovery, env, ForegroundProcessName, candidates, best, result,
                    waits, outcome >>

\* Mutant of CatchDetect: the catch block rethrows.
CatchDetect_Rethrow ==
    /\ pc = "catch"
    /\ outcome' = "rejected"
    /\ pc' = "done"
    /\ UNCHANGED << notDiscovery, env, ForegroundProcessName, candidates, best, stdout, result,
                    waits, fault >>

\* The catch block of getCurrentMediaSession, its finally block and the
\* `return null` after them.
CatchDetect ==
    /\ pc = "catch"
    /\ result' = NoSession
    /\ outcome' = "resolved"
    /\ pc' = "done"
    /\ UNCHANGED << notDiscovery, env, ForegroundProcessName, candidates, best, stdout,
                    waits, fault >>

NextDiscover ==
    \/ Next
    \/ CreateTempFails
    \/ ExecFails
    \/ ParseFails
    \/ CatchDetect

SpecDiscover == InitDiscover /\ [][NextDiscover]_vars

\* ------------------------------------------------------------ controlMedia
\* Default timeout of the control script's own Wait-AsyncOperation.
ControlTimeoutMs == 4000

\* Transport sessions as the control script sees them: application id,
\* playback status, what GetPlaybackInfo() does, and what the Try...Async()
\* call of the requested action does ("ok", "hung": its operation never
\* completes, "throws").
ControlSessionPool ==
    << [ appId |-> <<"Spotify", ".exe">>, status |-> "Paused",
         info |-> "ok", cmd |-> "ok" ],
       [ appId |-> <<"Chrome">>, status |-> "Playing",
         info |-> "ok", cmd |-> "hung" ],
       [ appId |-> <<"VLC", ".exe">>, status |-> "Playing",
         info |-> "throws", cmd |-> "ok" ],
       [ appId |-> <<"MS", "Edge">>, status |-> "Paused",
         info |-> "ok", cmd |-> "throws" ],
       [ appId |-> <<"Spotify", ".exe">>, status |-> "Playing",
         info |-> "ok", cmd |-> "ok" ] >>

\* The five actions of controlMedia.
Actions == { "play", "pause", "next", "previous", "toggle" }

\* The smallest index in the set I of indices, or 0 when I is empty: the
\* session at which a foreach loop with break stops.
FirstOf(I) ==
    IF I = {} THEN 0 ELSE CHOOSE i \in I : \A j \in I : i <= j

\* First loop: the first session whose playback info can be read and whose
\* lowered application id matches the foreground process name.
ForegroundTarget(ss, fg) ==
    IF fg = Null \/ fg = <<>> THEN 0
    ELSE FirstOf({ i \in 1..Len(ss) :
                     ss[i].info = "ok" /\ Contains(ToLower(ss[i].appId), fg) })

\* Second loop: the first session that reports Playing.
PlayingTarget(ss) ==
    FirstOf({ i \in 1..Len(ss) : ss[i].info = "ok" /\ ss[i].status = "Playing" })

\* $target after the two loops and the GetCurrentSession() fallback.
ResolveTarget(ss, fg, current) ==
    IF ForegroundTarget(ss, fg) # 0 THEN ForegroundTarget(ss, fg)
    ELSE IF PlayingTarget(ss) # 0 THEN PlayingTarget(ss)
    ELSE current

\* The sessions the `elseif ($sessions)` branch calls, in order: all of them
\* for 'play', those reporting Playing for 'pause', none otherwise; a session
\* whose call throws is passed over by its own try/catch.
BroadcastTargets(ss, act) ==
    LET idx == [ i \in 1..Len(ss) |-> i ]
    IN  IF act = "play"
        THEN SelectSeq(idx, LAMBDA i : ss[i].cmd # "throws")
        ELSE IF act = "pause"
        THEN SelectSeq(idx, LAMBDA i : /\ ss[i].info = "ok"
                                       /\ ss[i].status = "Playing"
                                       /\ ss[i].cmd # "throws")
        ELSE <<>>

\* The SMTC section of the control script: $target, $usedSmTc and the native
\* commands issued, as << session index, command >> in order.
NativeSection(ss, fg, current, act, op) ==
    LET none == [ target |-> 0, usedSmTc |-> FALSE, sent |-> <<>> ]
        t == ResolveTarget(ss, fg, current)
        b == BroadcastTargets(ss, act)
    IN  IF ~WaitAsyncOperation(op, ControlTimeoutMs, PollMs).completed THEN none
        ELSE IF t # 0
        THEN [ target |-> t, usedSmTc |-> TRUE,
               sent |-> IF ss[t].cmd = "throws" THEN <<>> ELSE << << t, act >> >> ]
        ELSE IF ss # <<>>
        THEN [ target |-> 0, usedSmTc |-> b # <<>>,
               sent |-> [ k \in 1..Len(b) |-> << b[k], act >> ] ]
        ELSE none

\* $vk for an action, as a decimal number.
Vk(act) ==
    CASE act = "next" -> 176
      [] act = "previous" -> 177
      [] OTHER -> 179

\* The media command a player performs for a media key.
KeyCommand(vk) ==
    CASE vk = 176 -> "next"
      [] vk = 177 -> "previous"
      [] OTHER -> "toggle"

\* A player performs one command: its play state, its track (relative to
\* where it was) and the number of commands it has performed.
ApplyCommand(player, cmd) ==
    [ playing |-> CASE cmd = "play" -> TRUE
                    [] cmd = "pause" -> FALSE
                    [] cmd = "toggle" -> ~player.playing
                    [] OTHER -> player.playing,
      track |-> CASE cmd = "next" -> player.track + 1
                  [] cmd = "previous" -> player.track - 1
                  [] OTHER -> player.track,
      applied |-> player.applied + 1 ]

\* The players behind the sessions before the script runs.
PlayersAtStart(ss) ==
    [ i \in 1..Len(ss) |-> [ playing |-> ss[i].status = "Playing", track |-> 0, applied |-> 0 ] ]

\* The players after the native commands of sent, in order: a Try...Async()
\* call that completes ("ok") is performed by the session's player.
RECURSIVE AfterNative(_, _, _)
AfterNative(players, ss, sent) ==
    IF sent = <<>> THEN players
    ELSE LET i == Head(sent)[1]
             cmd == Head(sent)[2]
         IN  AfterNative(IF ss[i].cmd = "ok"
                         THEN [ players EXCEPT ![i] = ApplyCommand(@, cmd) ]
                         ELSE players,
                         ss, Tail(sent))

\* The players after the injected key: Windows hands a media key press to
\* the current session, whose player performs the key's command.
AfterKey(players, current, keys) ==
    IF keys # <<>> /\ current \in 1..Len(players)
    THEN [ players EXCEPT ![current] = ApplyCommand(@, KeyCommand(keys[1][1])) ]
    ELSE players

\* What RequestAsync() can return to the control script: completed at once,
\* never completing, completing only after the script's timeout, and failed.
ControlMgrOpPool ==
    { OpCompleted, OpHung,
      [ after |-> (ControlTimeoutMs \div PollMs) + 1, final |-> "Completed" ],
      [ after |-> 0, final |-> "Error" ] }

InitControl ==
    /\ action \in Actions
    /\ kbdThrows \in BOOLEAN
    /\ mgrOp \in ControlMgrOpPool
    /\ \E I \in SUBSET (1..Len(ControlSessionPool)) :
          /\ Cardinality(I) <= MaxSessions
          /\ sessions = Pick(ControlSessionPool, I)
    /\ currentSession \in 0..Len(sessions)
    /\ foregroundProcess \in { Null, <<"Spotify">>, <<"chrome">> }
    /\ processes = <<>>
    /\ condIsCommand = FALSE
    /\ sortIgnoresKey = FALSE
    /\ CallNotStarted
    /\ ControlNotStarted
    /\ NoCalls
    /\ ViewMounted
    /\ TestNotRun
    /\ NoVolumeCall

\* Everything a controlMedia step leaves alone.
notControl ==
    << env, pc, ForegroundProcessName, candidates, best, stdout, result, waits,
       fault, outcome, action, currentSession, kbdThrows, fileVars, uiVars,
       testVars, volumeVars >>

\* controlMedia writes the script to its temp path and starts powershell.
StartControl ==
    /\ ctl.pc = "start"
    /\ ctl' = [ ctl EXCEPT !.pc = "native" ]
    /\ UNCHANGED notControl

\* fs.writeFileSync throws.
ControlWriteFails ==
    /\ ctl.pc = "start"
    /\ ctl' = [ ctl EXCEPT !.pc = "catch", !.fault = "write" ]
    /\ UNCHANGED notControl

\* execAsync rejects: powershell cannot be started, is killed while the
\* script runs, or exits with a non-zero code.
ControlExecFails ==
    /\ ctl.pc \in {"native", "keys", "appcommand", "output", "parse"}
    /\ ctl' = [ ctl EXCEPT !.pc = "catch", !.fault = "exec" ]
    /\ UNCHANGED notControl

\* The foreground lookup and the SMTC section of the script.
RunNativeSection ==
    /\ ctl.pc = "native"
    /\ LET fg == IF foregroundProcess = Null THEN Null ELSE ToLower(foregroundProcess)
           n == NativeSection(sessions, fg, currentSession, action, mgrOp)
       IN  ctl' = [ ctl EXCEPT !.pc = "keys", !.target = n.target,
                               !.usedSmTc = n.usedSmTc, !.sent = n.sent,
                               !.players = AfterNative(PlayersAtStart(sessions),
                                                       sessions, n.sent) ]
    /\ UNCHANGED notControl

\* Mutant of InjectKey: the key is a fallback, sent only when no native
\* command was issued.
InjectKey_OnlyWithoutSmtc ==
    /\ ctl.pc = "keys"
    /\ LET keys == IF kbdThrows \/ ctl.usedSmTc THEN <<>>
                   ELSE << << Vk(action), 0 >>, << Vk(action), 2 >> >>
       IN  ctl' = [ ctl EXCEPT !.pc = "appcommand",
                               !.keys = keys,
                               !.players = AfterKey(ctl.players, currentSession, keys) ]
    /\ UNCHANGED notControl

\* The keybd_event section: key down and key up of $vk as << vk, flags >>,
\* or nothing when the call throws into its catch {}.
InjectKey ==
    /\ ctl.pc = "keys"
    /\ LET keys == IF kbdThrows THEN <<>>
                   ELSE << << Vk(action), 0 >>, << Vk(action), 2 >> >>
       IN  ctl' = [ ctl EXCEPT !.pc = "appcommand",
                               !.keys = keys,
                               !.players = AfterKey(ctl.players, currentSession, keys) ]
    /\ UNCHANGED notControl

\* The types the control script defines with Add-Type before its last block.
\* Every call runs in a powershell process of its own, so no other type of
\* the extension's scripts is loaded.
ControlScriptTypes == { "Win32.Native", "KbdSender" }

\* The block `if ((-not $usedSmTc) -and ($Action -eq 'play'))`: the messages
\* it sends.  Its body reads [AppCommandSender]; when that type is not among
\* the loaded types the first statement throws into the block's catch {}.
AppCommandBlock(usedSmTc, act, types) ==
    IF ~usedSmTc /\ act = "play" /\ "AppCommandSender" \in types
    THEN << [ hWnd |-> "HWND_BROADCAST", Msg |-> "WM_APPCOMMAND",
              lParam |-> "APPCOMMAND_MEDIA_PLAY" ] >>
    ELSE <<>>

\* The WM_APPCOMMAND block of the script.
SendAppCommand ==
    /\ ctl.pc = "appcommand"
    /\ ctl' = [ ctl EXCEPT !.pc = "output",
                           !.appCommands =
                               AppCommandBlock(ctl.usedSmTc, action, ControlScriptTypes) ]
    /\ UNCHANGED notControl

\* The last lines of the script: Write-Output ("OK " + $pathLabel).
WriteOutput ==
    /\ ctl.pc = "output"
    /\ ctl' = [ ctl EXCEPT !.pc = "parse",
                           !.stdout = << "OK", " ",
                                         IF ctl.usedSmTc THEN "SMTC+VK" ELSE "VK" >> ]
    /\ UNCHANGED notControl

\* controlMedia after the script has run: ok = out.includes("OK").
ControlReturn ==
    /\ ctl.pc = "parse"
    /\ ctl' = [ ctl EXCEPT !.pc = "done",
                           !.result = Contains(ctl.stdout, <<"OK">>),
                           !.outcome = "resolved" ]
    /\ UNCHANGED notControl

\* The catch block of controlMedia: log and return false.
ControlCatch ==
    /\ ctl.pc = "catch"
    /\ ctl' = [ ctl EXCEPT !.pc = "done", !.result = FALSE, !.outcome = "resolved" ]
    /\ UNCHANGED notControl

NextControl ==
    \/ StartControl
    \/ ControlWriteFails
    \/ ControlExecFails
    \/ RunNativeSection
    \/ InjectKey
    \/ SendAppCommand
    \/ WriteOutput
    \/ ControlReturn
    \/ ControlCatch

SpecControl == InitControl /\ [][NextControl]_vars

\* ------------------------------------------------------------ temp scripts
\* The for loop of createTempPsFile makes this many exclusive attempts.
MaxAttempts == 5

\* The exported functions that run a PowerShell script from a temp file.
Kinds == { "getCurrentMediaSession", "controlMedia", "controlAppVolume",
           "getVolume", "setVolume" }

\* The file name prefix each function passes to createTempPsFile; for
\* controlMedia the base name of its one path.
PrefixOf(kind) ==
    CASE kind = "getCurrentMediaSession" -> "raycast_media_detect"
      [] kind = "controlMedia" -> "raycast_media_control"
      [] kind = "controlAppVolume" -> "raycast_volume_keys"
      [] kind = "getVolume" -> "raycast_get_volume"
      [] kind = "setVolume" -> "raycast_set_volume"

\* `${prefix}_${process.pid}_${Date.now()}_${random}.ps1` for invocations of
\* one process within one millisecond: the name varies with the random part.
TempName(prefix, rnd) == [ prefix |-> prefix, rnd |-> rnd ]

\* `${prefix}_${process.pid}_${Date.now()}.ps1`: the fallback name has no
\* random part.
FallbackName(prefix) == [ prefix |-> prefix, rnd |-> 0 ]

\* path.join(os.tmpdir(), "raycast_media_control.ps1")
ControlPath == [ prefix |-> PrefixOf("controlMedia"), rnd |-> 0 ]

\* A file exists at path p.
Exists(p) == \E f \in files : f.path = p

\* fs.writeFileSync(p, ...) by invocation c, creating or replacing the file.
WriteFile(p, c) == { f \in files : f.path # p } \cup { [ path |-> p, writer |-> c ] }

\* fs.unlinkSync(p) inside try/catch: the file is gone afterwards.
Unlink(p) == { f \in files : f.path # p }

\* Invocations whose function body has been entered and has not returned.
InFlight == { c \in 1..MaxCalls : calls[c].pc \notin {"idle", "done"} }

InitCalls ==
    /\ NoCalls
    /\ sessions = <<>>
    /\ processes = <<>>
    /\ foregroundProcess = Null
    /\ condIsCommand = FALSE
    /\ sortIgnoresKey = FALSE
    /\ mgrOp = OpCompleted
    /\ CallNotStarted
    /\ NoControlCall
    /\ ViewMounted
    /\ TestNotRun
    /\ NoVolumeCall

\* Everything a step of an invocation leaves alone besides calls and files.
notFiles ==
    << env, pc, ForegroundProcessName, candidates, best, stdout, result, waits,
       fault, outcome, controlVars, uiVars, testVars, volumeVars >>

\* One of the exported functions is called.
Invoke(c, kind) ==
    /\ calls[c].pc = "idle"
    /\ calls' = [ calls EXCEPT ![c].kind = kind,
                               ![c].pc = IF kind = "controlMedia" THEN "write"
                                         ELSE "create" ]
    /\ UNCHANGED << files, notFiles >>

\* One iteration of the loop of createTempPsFile: writeFileSync with flag
\* "wx" under a fresh name.  It creates the file and returns the path, or
\* fails with EEXIST because the name is taken and the loop continues.
CreateAttempt(c) ==
    /\ calls[c].pc = "create"
    /\ calls[c].i < MaxAttempts
    /\ \E rnd \in 1..MaxRandom :
          LET p == TempName(PrefixOf(calls[c].kind), rnd)
          IN  IF Exists(p)
              THEN /\ calls' = [ calls EXCEPT ![c].i = @ + 1 ]
                   /\ UNCHANGED files
              ELSE /\ files' = WriteFile(p, c)
                   /\ calls' = [ calls EXCEPT ![c].pc = "exec",
                                              ![c].psPath = p,
                                              ![c].wrote = @ \cup {p} ]
    /\ UNCHANGED notFiles

\* One iteration that fails with EBUSY: the loop continues.
CreateBusy(c) ==
    /\ calls[c].pc = "create"
    /\ calls[c].i < MaxAttempts
    /\ calls' = [ calls EXCEPT ![c].i = @ + 1 ]
    /\ UNCHANGED << files, notFiles >>

\* A write of createTempPsFile fails with another error: it is rethrown,
\* psPath stays null, and the caller goes to its catch and finally blocks.
CreateThrows(c) ==
    /\ calls[c].pc = "create"
    /\ calls' = [ calls EXCEPT ![c].pc = "end" ]
    /\ UNCHANGED << files, notFiles >>

\* The final attempt of createTempPsFile after the loop: the fallback name,
\* written without the exclusive flag.
CreateFallback(c) ==
    /\ calls[c].pc = "create"
    /\ calls[c].i = MaxAttempts
    /\ LET p == FallbackName(PrefixOf(calls[c].kind))
       IN  /\ files' = WriteFile(p, c)
           /\ calls' = [ calls EXCEPT ![c].pc = "exec",
                                      ![c].psPath = p,
                                      ![c].wrote = @ \cup {p} ]
    /\ UNCHANGED notFiles

\* controlMedia writes its script to its one path, without exclusive flag.
ControlWrite(c) ==
    /\ calls[c].pc = "write"
    /\ files' = WriteFile(ControlPath, c)
    /\ calls' = [ calls EXCEPT ![c].pc = "exec",
                               ![c].psPath = ControlPath,
                               ![c].wrote = @ \cup {ControlPath} ]
    /\ UNCHANGED notFiles

\* execAsync settles: powershell has run the file at psPath, or failed.
Execute(c) ==
    /\ calls[c].pc = "exec"
    /\ calls' = [ calls EXCEPT ![c].pc = "end" ]
    /\ UNCHANGED << files, notFiles >>

\* The end of the function: the finally block unlinks psPath when it is set
\* (all functions but controlMedia, which has no finally block), then the
\* function returns.
Finish(c) ==
    /\ calls[c].pc = "end"
    /\ files' = IF calls[c].kind # "controlMedia" /\ calls[c].psPath # NoPath
                THEN Unlink(calls[c].psPath)
                ELSE files
    /\ calls' = [ calls EXCEPT ![c].pc = "done" ]
    /\ UNCHANGED notFiles

NextCalls ==
    \E c \in 1..MaxCalls :
        \/ \E kind \in Kinds : Invoke(c, kind)
        \/ CreateAttempt(c)
        \/ CreateBusy(c)
        \/ CreateThrows(c)
        \/ CreateFallback(c)
        \/ ControlWrite(c)
        \/ Execute(c)
        \/ Finish(c)

SpecCalls == InitCalls /\ [][NextCalls]_vars

\* ------------------------------------------------- the MediaControl view
\* What getCurrentMediaSession can resolve to in a refresh: null or one of
\* two sessions.
SessionValues == { NoneDisplayed, "session A", "session B" }

\* What getVolume can resolve to in a refresh.
VolumeValues == { 40, 50 }

InitUi ==
    /\ ViewMounted
    /\ TestNotRun
    /\ NoVolumeCall
    /\ sessions = <<>>
    /\ processes = <<>>
    /\ foregroundProcess = Null
    /\ condIsCommand = FALSE
    /\ sortIgnoresKey = FALSE
    /\ mgrOp = OpCompleted
    /\ CallNotStarted
    /\ NoControlCall
    /\ NoCalls

\* Everything a step of the view leaves alone besides ui and tasks.
notUi ==
    << env, pc, ForegroundProcessName, candidates, best, stdout, result, waits,
       fault, outcome, controlVars, fileVars, testVars, volumeVars >>

\* The slots in which a refreshMediaInfo call is awaiting its results or has
\* them and has not yet run its continuation.
RefreshesInFlight == { u \in 1..MaxTasks : tasks[u].pc \in {"await", "resolved"} }

\* No refresh has its results and a continuation waiting to run: timer and
\* event callbacks and the settling of other awaits come after it.
NoContinuationPending == \A u \in 1..MaxTasks : tasks[u].pc # "resolved"

\* refreshMediaInfo is called, by the effect on mount, by the interval timer
\* or by the Refresh action: it starts getCurrentMediaSession and getVolume
\* and awaits both.
StartRefresh(t) ==
    /\ tasks[t].pc = "idle"
    /\ NoContinuationPending
    /\ tasks' = [ tasks EXCEPT ![t].kind = "refresh", ![t].pc = "await",
                               ![t].older = RefreshesInFlight ]
    /\ UNCHANGED << ui, notUi >>

\* Promise.all of a refresh resolves with a session (or null) and a volume.
ResolveRefresh(t, s, v) ==
    /\ tasks[t].pc = "await"
    /\ NoContinuationPending
    /\ tasks' = [ tasks EXCEPT ![t].pc = "resolved", ![t].session = s, ![t].volume = v ]
    /\ UNCHANGED << ui, notUi >>

\* The rest of refreshMediaInfo: setMediaSession(session),
\* setVolumeState(currentVolume), and setIsLoading(false) in finally.  It
\* runs as the continuation of the await, before any timer or event
\* callback.  When handleVolumeControl awaited the refresh, the handler's
\* own finally block, setIsLoading(false) again, follows in the same way.
ApplyRefresh(t) ==
    /\ tasks[t].pc = "resolved"
    /\ ui' = [ mediaSession |-> tasks[t].session,
               volume |-> tasks[t].volume,
               isLoading |-> FALSE ]
    /\ tasks' = [ u \in 1..MaxTasks |->
                    IF u = t THEN IdleTask
                    ELSE [ tasks[u] EXCEPT !.older = @ \ {t},
                                           !.stale = @ \/ (u \in tasks[t].older) ] ]
    /\ UNCHANGED notUi

\* handleMediaControl or handleVolumeControl is called: setIsLoading(true),
\* then controlMedia / controlAppVolume is awaited.
StartHandler(t, kind) ==
    /\ tasks[t].pc = "idle"
    /\ NoContinuationPending
    /\ ui' = [ ui EXCEPT !.isLoading = TRUE ]
    /\ tasks' = [ tasks EXCEPT ![t].kind = kind, ![t].pc = "control" ]
    /\ UNCHANGED notUi

\* The awaited control function resolves and the toast is shown.
\* handleVolumeControl goes on to await refreshMediaInfo() on success.
ControlSettles(t, success) ==
    /\ tasks[t].pc = "control"
    /\ NoContinuationPending
    /\ tasks' = [ tasks EXCEPT ![t].pc = IF tasks[t].kind = "volume" /\ success
                                         THEN "await" ELSE "finally",
                               ![t].older = IF tasks[t].kind = "volume" /\ success
                                            THEN RefreshesInFlight ELSE {} ]
    /\ UNCHANGED << ui, notUi >>

\* The finally block of a handler: setIsLoading(false).
FinishHandler(t) ==
    /\ tasks[t].pc = "finally"
    /\ NoContinuationPending
    /\ ui' = [ ui EXCEPT !.isLoading = FALSE ]
    /\ tasks' = [ tasks EXCEPT ![t] = IdleTask ]
    /\ UNCHANGED notUi

NextUi ==
    \E t \in 1..MaxTasks :
        \/ StartRefresh(t)
        \/ \E s \in SessionValues, v \in VolumeValues : ResolveRefresh(t, s, v)
        \/ ApplyRefresh(t)
        \/ \E kind \in {"media", "volume"} : StartHandler(t, kind)
        \/ \E success \in BOOLEAN : ControlSettles(t, success)
        \/ FinishHandler(t)

SpecUi == InitUi /\ [][NextUi]_vars

\* ------------------------------------------- discovery over more titles
\* Transport sessions whose titles carry a bracketed video id.
TitleSessionPool ==
    << [ appId |-> <<"Chrome">>, title |-> <<VideoIdToken, " ", "Video">>,
         artist |-> <<>>, album |-> <<>>, status |-> "Paused",
         info |-> "ok", propsOp |-> OpCompleted ],
       [ appId |-> <<"firefox", ".exe">>, title |-> <<"Video", " ", VideoIdToken>>,
         artist |-> <<"Channel">>, album |-> <<>>, status |-> "Playing",
         info |-> "ok", propsOp |-> OpCompleted ],
       [ appId |-> <<"zen", ".exe">>, title |-> <<"Video", " ", VideoIdToken>>,
         artist |-> <<"Channel">>, album |-> <<>>, status |-> "Playing",
         info |-> "ok", propsOp |-> OpCompleted ] >>

\* Windows of the applications of $mediaApps and of Zen, in Get-Process
\* order: titles that match the playing pattern, the paused pattern, both
\* or neither.
TitleProcessPool ==
    << [ ProcessName |-> <<"chrome">>,
         MainWindowTitle |-> <<"New Tab", " - ", "Google Chrome">> ],
       [ ProcessName |-> <<"chrome">>,
         MainWindowTitle |-> <<"New Tab", " - ", "YouTube", " - ", "Google Chrome">> ],
       [ ProcessName |-> <<"chrome">>,
         MainWindowTitle |-> <<"Video", " ", VideoIdToken, " - ", "YouTube", " - ", "Google Chrome">> ],
       [ ProcessName |-> <<"chrome">>,
         MainWindowTitle |-> <<"YouTube", " - ", "Google Chrome">> ],
       [ ProcessName |-> <<"iTunes">>,
         MainWindowTitle |-> <<"iTunes">> ],
       [ ProcessName |-> <<"iTunes">>,
         MainWindowTitle |-> <<"Song", " - ", "Artist", " - ", "iTunes">> ],
       [ ProcessName |-> <<"Spotify">>,
         MainWindowTitle |-> <<"Spotify", " Premium">> ],
       [ ProcessName |-> <<"Spotify">>,
         MainWindowTitle |-> <<"Artist", " - ", "Song">> ],
       [ ProcessName |-> <<"vlc">>,
         MainWindowTitle |-> <<"VLC media player">> ],
       [ ProcessName |-> <<"vlc">>,
         MainWindowTitle |-> <<"Video", " - ", "VLC media player">> ],
       [ ProcessName |-> <<"wmplayer">>,
         MainWindowTitle |-> <<"Song", " - ", "Windows Media Player">> ],
       [ ProcessName |-> <<"zen">>,
         MainWindowTitle |-> <<"Video", " ", VideoIdToken, " - ", "YouTube", EmDash, "Zen", " Browser">> ] >>

\* The keys of $mediaApps in mediaUtils.ts, as lowered process names (a
\* hashtable lookup ignores case, so "iTunes" is found under "itunes").
MediaApps ==
    { <<"spotify">>, <<"chrome">>, <<"brave">>, <<"ms", "edge">>, <<"firefox">>,
      <<"vlc">>, <<"wmplayer">>, <<"itunes">> }

\* displayName of a $mediaApps entry.
DisplayName(processName) ==
    CASE processName = <<"spotify">> -> <<"Spotify">>
      [] processName = <<"chrome">> -> <<"Chrome">>
      [] processName = <<"brave">> -> <<"Brave">>
      [] processName = <<"ms", "edge">> -> <<"Microsoft", " ", "Edge">>
      [] processName = <<"firefox">> -> <<"Firefox">>
      [] processName = <<"zen">> -> <<"Zen", " Browser">>
      [] processName = <<"vlc">> -> <<"VLC Media Player">>
      [] processName = <<"wmplayer">> -> <<"Windows Media Player">>
      [] processName = <<"itunes">> -> <<"iTunes">>
      [] OTHER -> Null

\* '^(.+) - (.+) - iTunes$': the index of the " - " that ends the greedy
\* group 1, or 0.
ITunesSplitAt(title) ==
    LET n == TailAt(title, <<" - ", "itunes">>)
        J == { j \in 2..(n - 2) : title[j] = " - " }
    IN  IF n = 0 \/ J = {} THEN 0 ELSE CHOOSE j \in J : \A k \in J : k <= j

\* $title -match titlePattern of the $mediaApps entry: the index at which
\* group 1 ends, or 0 when the title does not match or there is no entry.
TitlePatternAt(processName, title) ==
    CASE processName = <<"spotify">> -> SpotifySplitAt(title)
      [] processName = <<"chrome">> ->
            TailAt(title, <<" - ", "youtube", " - ", "google chrome">>)
      [] processName = <<"brave">> -> TailAt(title, <<" - ", "youtube", " - ", "brave">>)
      [] processName = <<"ms", "edge">> -> EdgeTitleAt(title)
      [] processName = <<"firefox">> ->
            TailAt(title, <<" - ", "youtube", " - ", "mozilla firefox">>)
      [] processName = <<"vlc">> -> TailAt(title, <<" - ", "vlc media player">>)
      [] processName = <<"wmplayer">> -> TailAt(title, <<" - ", "windows media player">>)
      [] processName = <<"itunes">> -> ITunesSplitAt(title)
      [] OTHER -> 0

\* ------------------------------------------------ test-actual-script.ps1
\* The keys of $mediaApps in test-actual-script.ps1: those of mediaUtils.ts
\* and zen.
TestMediaApps == MediaApps \cup { <<"zen">> }

\* "^(.+) - YouTube (—|-|–) Zen Browser$"
TestZenTitleAt(title) ==
    LET ats == { TailAt(title, <<" - ", "youtube", d, "zen", " browser">>) :
                    d \in {" - ", EmDash, EnDash} }
    IN  CHOOSE j \in ats : \A k \in ats : k <= j

TestTitlePatternAt(processName, title) ==
    IF processName = <<"zen">> THEN TestZenTitleAt(title)
    ELSE TitlePatternAt(processName, title)

\* $title -match $mediaApp.pausedPattern
TestPausedPattern(processName, title) ==
    IF processName = <<"zen">>
    THEN LET t == ToLower(title)
         IN  /\ EndsWith(t, <<"zen", " browser">>)
             /\ \E i \in 1..(Len(t) - 2) : t[i] = "youtube"
    ELSE IsPausedTitle(processName, title)

\* $title -notmatch "^(New Tab|about:blank)"
NotBlankTab(title) ==
    title = <<>> \/ ToLowerTok(title[1]) \notin { "new tab", "about:blank" }

\* $base of both branches.
TestBase(processName) ==
    CASE processName = <<"zen">> -> 77
      [] processName \in { <<"brave">>, <<"chrome">>, <<"ms", "edge">>, <<"firefox">> } -> 75
      [] processName = <<"spotify">> -> 80
      [] OTHER -> 70

\* The "PAUSED STATE FOUND" branch.
TestPausedCandidate(process, processName) ==
    [ Score |-> TestBase(processName) - 20,
      Session |-> [ Title |-> <<"Media Paused">>,
                    Artist |-> DisplayName(processName),
                    Album |-> Null,
                    AppName |-> process.ProcessName,
                    IsPlaying |-> FALSE,
                    CanPlay |-> TRUE,
                    CanPause |-> FALSE,
                    CanSkipNext |-> TRUE,
                    CanSkipPrevious |-> TRUE ],
      adapter |-> "test",
      bonusLive |-> 0,
      bonusFg |-> 0 ]

\* The "MATCH FOUND" branch; at is where group 1 of the title pattern ends.
TestPlayingCandidate(process, processName, at) ==
    LET title == process.MainWindowTitle
        n == IF processName = <<"itunes">> THEN TailAt(title, <<" - ", "itunes">>)
             ELSE Len(title) + 1
        group1 == SubSeq(title, 1, at - 1)
        group2 == SubSeq(title, at + 1, n - 1)
        songTitle == IF processName = <<"spotify">> THEN group2 ELSE group1
        artist == IF processName = <<"spotify">> THEN group1
                  ELSE IF processName \in { <<"chrome">>, <<"brave">>, <<"ms", "edge">>,
                                            <<"firefox">>, <<"zen">> }
                  THEN <<"YouTube">>
                  ELSE IF processName = <<"itunes">> THEN group2
                  ELSE DisplayName(processName)
        bonusLive == IF MatchesLive(songTitle) THEN 20 ELSE 0
    IN  [ Score |-> TestBase(processName) + bonusLive,
          Session |-> [ Title |-> songTitle,
                        Artist |-> artist,
                        Album |-> Null,
                        AppName |-> process.ProcessName,
                        IsPlaying |-> TRUE,
                        CanPlay |-> TRUE,
                        CanPause |-> TRUE,
                        CanSkipNext |-> TRUE,
                        CanSkipPrevious |-> TRUE ],
          adapter |-> "test",
          bonusLive |-> bonusLive,
          bonusFg |-> 0 ]

\* The body of the foreach loop for one process: if paused / elseif playing
\* / else nothing.
TestCandidatesOf(process) ==
    LET processName == ToLower(process.ProcessName)
        title == process.MainWindowTitle
    IN  IF processName \notin TestMediaApps THEN <<>>
        ELSE IF TestPausedPattern(processName, title) /\ NotBlankTab(title)
        THEN << TestPausedCandidate(process, processName) >>
        ELSE IF TestTitlePatternAt(processName, title) # 0
        THEN << TestPlayingCandidate(process, processName,
                                     TestTitlePatternAt(processName, title)) >>
        ELSE <<>>

RECURSIVE TestCandidates(_)
TestCandidates(ps) ==
    IF ps = <<>> THEN <<>>
    ELSE TestCandidatesOf(Head(ps)) \o TestCandidates(Tail(ps))

\* Sort-Object by IsPlaying descending, then Score descending, and
\* Select-Object -First 1: the positions that can come first (the sort is
\* not stable, so equal candidates may come in either order).
TestBestPositions(cs) ==
    LET better(a, b) == \/ a.Session.IsPlaying /\ ~b.Session.IsPlaying
                        \/ a.Session.IsPlaying = b.Session.IsPlaying /\ a.Score > b.Score
    IN  { i \in 1..Len(cs) : \A j \in 1..Len(cs) : ~better(cs[j], cs[i]) }

\* One run of test-actual-script.ps1 over the processes with a window title.
RunTestScript ==
    /\ test.pc = "start"
    /\ LET cs == TestCandidates(processes)
       IN  IF Len(cs) > 0
           THEN \E i \in TestBestPositions(cs) :
                    test' = [ pc |-> "done", candidates |-> cs, stdout |-> << cs[i].Session >> ]
           ELSE test' = [ pc |-> "done", candidates |-> cs, stdout |-> <<>> ]
    /\ UNCHANGED << env, pc, ForegroundProcessName, candidates, best, stdout, result,
                    waits, fault, outcome, controlVars, fileVars, uiVars, volumeVars >>

InitTitles ==
    /\ sortIgnoresKey \in BOOLEAN
    /\ condIsCommand \in BOOLEAN
    /\ \E I \in SUBSET (1..Len(TitleSessionPool)) :
          /\ Cardinality(I) <= MaxSessions
          /\ sessions = Pick(TitleSessionPool, I)
    /\ \E I \in SUBSET (1..Len(TitleProcessPool)) :
          /\ Cardinality(I) <= MaxWindows
          /\ processes = Pick(TitleProcessPool, I)
    /\ foregroundProcess \in { Null, <<"chrome">> }
    /\ mgrOp = OpCompleted
    /\ CallNotStarted
    /\ NoControlCall
    /\ NoCalls
    /\ ViewMounted
    /\ TestNotRun
    /\ NoVolumeCall

NextTitles == Next \/ RunTestScript

SpecTitles == InitTitles /\ [][NextTitles]_vars

\* ------------------------------------------------ setVolume / getVolume
\* 0xFFFF, the full level of one channel.
FullScale == 65535

\* The values setVolume is called with: every level and one value beyond
\* each end.
VolumeInputs == (0 - 1)..101

\* Math.max(0, Math.min(100, volume))
Clamp(volume) == IF volume < 0 THEN 0 ELSE IF volume > 100 THEN 100 ELSE volume

\* VolumeControl.SetVolume: vol = (uint)((volume * 0xFFFF) / 100) and
\* stereoVol = (vol << 16) | vol, in 32 bits; vol is below 65536 for every
\* volume up to 100, so each 16-bit word of stereoVol is vol.
StereoVol(volume) ==
    LET v == (volume * FullScale) \div 100
    IN  [ hi |-> v % 65536, lo |-> v % 65536 ]

\* VolumeHelper.GetVolume when waveOutGetVolume succeeds:
\* (int)((volume & 0x0000ffff) * 100 / 0xffff).
PercentOf(dwVolume) == (dwVolume.lo * 100) \div FullScale

InitVolume ==
    /\ vol = IdleVolumeCall
    /\ device \in { StereoVol(0), StereoVol(100) }
    /\ sessions = <<>>
    /\ processes = <<>>
    /\ foregroundProcess = Null
    /\ condIsCommand = FALSE
    /\ sortIgnoresKey = FALSE
    /\ mgrOp = OpCompleted
    /\ CallNotStarted
    /\ NoControlCall
    /\ NoCalls
    /\ ViewMounted
    /\ TestNotRun

\* Everything a step of setVolume or getVolume leaves alone besides device
\* and vol.
notVolume ==
    << env, pc, ForegroundProcessName, candidates, best, stdout, result, waits,
       fault, outcome, controlVars, fileVars, uiVars, testVars >>

\* setVolume(volume) is called: the value is clamped and the script started.
StartSetVolume(volume) ==
    /\ vol.pc = "idle"
    /\ vol' = [ IdleVolumeCall EXCEPT !.pc = "set", !.arg = volume ]
    /\ UNCHANGED << device, notVolume >>

\* The script of setVolume runs with -Target clampedVolume and prints
\* "Success"; setVolume resolves to true.
RunSetScript ==
    /\ vol.pc = "set"
    /\ device' = StereoVol(Clamp(vol.arg))
    /\ vol' = [ vol EXCEPT !.pc = "setDone", !.setOk = TRUE ]
    /\ UNCHANGED notVolume

\* createTempPsFile or execAsync fails in setVolume: catch, return false.
SetVolumeFails ==
    /\ vol.pc = "set"
    /\ vol' = [ vol EXCEPT !.pc = "setDone", !.setOk = FALSE ]
    /\ UNCHANGED << device, notVolume >>

\* getVolume() is called, after a setVolume call or on its own.
StartGetVolume ==
    /\ vol.pc \in {"idle", "setDone"}
    /\ vol' = [ vol EXCEPT !.pc = "get" ]
    /\ UNCHANGED << device, notVolume >>

\* The script of getVolume runs and waveOutGetVolume succeeds; getVolume
\* parses the printed number and clamps it.
RunGetScript ==
    /\ vol.pc = "get"
    /\ vol' = [ vol EXCEPT !.pc = "got", !.got = Clamp(PercentOf(device)), !.getOk = TRUE ]
    /\ UNCHANGED << device, notVolume >>

\* waveOutGetVolume fails, the script throws, its output is not a number, or
\* execAsync rejects: getVolume resolves to 50.
GetVolumeFails ==
    /\ vol.pc = "get"
    /\ vol' = [ vol EXCEPT !.pc = "got", !.got = 50, !.getOk = FALSE ]
    /\ UNCHANGED << device, notVolume >>

\* The caller goes on; the next call can be made.
VolumeReturn ==
    /\ vol.pc = "got"
    /\ vol' = IdleVolumeCall
    /\ UNCHANGED << device, notVolume >>

NextVolume ==
    \/ \E volume \in VolumeInputs : StartSetVolume(volume)
    \/ RunSetScript
    \/ SetVolumeFails
    \/ StartGetVolume
    \/ RunGetScript
    \/ GetVolumeFails
    \/ VolumeReturn

SpecVolume == InitVolume /\ [][NextVolume]_vars

\* ---------------------------------------------------------------- claims
\* The script has chosen $best (or found no candidate).
Selected == pc \in {"parse", "done"}

\* Both adapters have run.
Collected == pc \in {"select", "parse", "done"}

Candidates == { candidates[i] : i \in 1..Len(candidates) }

IsBrowserCandidate(c) == IsBrowserAppId(c.Session.AppName)

IsSpotifyCandidate(c) == IsSpotifyAppId(c.Session.AppName)

IsLiveVideoCandidate(c) == IsBrowserCandidate(c) /\ MatchesLive(c.Session.Title)

IsPausedSpotifyCandidate(c) == IsSpotifyCandidate(c) /\ ~c.Session.IsPlaying

\* C1: whenever some candidate of the merged list is playing, the selected
\* winner is playing, whatever the scores of the paused candidates are.
C1_PlayingCandidateWins ==
    (Selected /\ \E c \in Candidates : c.Session.IsPlaying)
        => best[1].Session.IsPlaying

\* The windows of end-to-end scenario 2: chrome showing
\* 'Video - YouTube - Google Chrome', Spotify showing 'Spotify', nothing else.
C2_Scenario ==
    /\ sessions = <<>>
    /\ processes = << ProcessPool[2], ProcessPool[7] >>

\* C2: with only a Chrome window titled '<video> - YouTube - Google Chrome'
\* and a Spotify window titled 'Spotify', discovery has a playing Chrome
\* candidate and a paused Spotify candidate, and selects the Chrome one.
C2_ChromePlayingOutranksIdleSpotify ==
    (Selected /\ C2_Scenario)
        => /\ \E c \in Candidates :
                 c.Session.AppName = <<"chrome">> /\ c.Session.IsPlaying
           /\ \E c \in Candidates :
                 c.Session.AppName = <<"Spotify">> /\ ~c.Session.IsPlaying
           /\ best # <<>>
           /\ best[1].Session.AppName = <<"chrome">>
           /\ best[1].Session.IsPlaying

\* C3: every candidate, from either adapter and any application, carries a
\* live bonus of exactly 20 when its title contains 'live' (any case) or the
\* red-circle glyph, and of 0 otherwise.
C3_LiveBonusIsTwenty ==
    \A c \in Candidates :
        c.bonusLive = IF MatchesLive(c.Session.Title) THEN 20 ELSE 0

C5_PlayingSpotifyBeatsPausedBrowsers ==
    ( /\ Selected
      /\ \A c \in Candidates : IsBrowserCandidate(c) => ~c.Session.IsPlaying
      /\ \E c \in Candidates : IsSpotifyCandidate(c) /\ c.Session.IsPlaying )
        => IsSpotifyCandidate(best[1])

\* C6: the winner has the largest score among the candidates that share its
\* isPlaying value.
C6_WinnerHasMaxScoreInPlayState ==
    (Selected /\ best # <<>>)
        => \A c \in Candidates :
              c.Session.IsPlaying = best[1].Session.IsPlaying
                  => c.Score <= best[1].Score

\* C7: a candidate's score includes the +12 foreground bonus exactly when a
\* foreground process name was resolved and the candidate's application
\* identifier, lowered, contains that name.
C7_ForegroundBonusIffSubstring ==
    \A c \in Candidates :
        /\ c.bonusFg \in {0, 12}
        /\ c.bonusFg = 12
              <=> /\ ForegroundProcessName # Null
                  /\ Contains(ToLower(c.Session.AppName), ForegroundProcessName)

\* The Session records of a candidate list, in order, with the adapter that
\* produced each: everything of a candidate but its score.
SessionsOf(cs) == [i \in 1..Len(cs) |-> << cs[i].adapter, cs[i].Session >>]

\* The candidate list a discovery cycle over the same sessions and windows
\* collects when the foreground process is f.
CandidatesUnder(f) ==
    LET name == IF f = Null THEN Null ELSE ToLower(f)
    IN  SmtcCandidates(ManagerSessions, name, condIsCommand)
        \o WindowCandidates(processes, name)

\* C8: the foreground process never filters: when both adapters have run, a
\* cycle over the same sessions and windows under any other foreground
\* process collects the same candidates (same Session records, same order);
\* only scores may differ.
C8_ForegroundNeverFilters ==
    pc = "select" =>
        \A f \in ForegroundPool : SessionsOf(CandidatesUnder(f)) = SessionsOf(candidates)

\* C8 witness: the foreground process is known and the collected list holds
\* a candidate that got its bonus beside one that did not.
C8_Witness ==
    /\ Collected
    /\ ForegroundProcessName # Null
    /\ \E c \in Candidates : c.bonusFg = 12
    /\ \E c \in Candidates : c.bonusFg = 0

\* C9: every candidate has a non-empty title, and every session that
\* getCurrentMediaSession returns has a non-empty title.
C9_TitlesNonEmpty ==
    /\ \A c \in Candidates : c.Session.Title # <<>>
    /\ (pc = "done" /\ result # NoSession) => result.title # <<>>

\* C9 witness: a transport session with a blank title was skipped, and the
\* returned session's title is what is left of a title that was only a
\* bracketed video id.
C9_Witness ==
    /\ pc = "done"
    /\ \E i \in 1..Len(sessions) : Trim(sessions[i].title) = <<>>
    /\ best # <<>>
    /\ best[1].Session.Title = << VideoIdToken >>
    /\ result # NoSession
    /\ result.title = <<"Unknown Video">>

\* C10: getCurrentMediaSession resolves to null exactly when neither adapter
\* produced a candidate, and otherwise to the session built from one of the
\* candidates.
C10_NullIffNoCandidates ==
    pc = "done" =>
        /\ result = NoSession <=> candidates = <<>>
        /\ candidates # <<>> =>
              \E c \in Candidates : result = MediaSessionOf(c.Session)

\* C10 witness: sessions and windows exist, none yields a candidate, and the
\* call resolved to null.
C10_Witness ==
    /\ pc = "done"
    /\ sessions # <<>>
    /\ processes # <<>>
    /\ candidates = <<>>
    /\ result = NoSession

\* The transport sessions and windows of the Spotify-only scenario: the
\* manager returns one playing session of Spotify.exe titled 'Song' with an
\* empty artist, no window yields a candidate, and the foreground process
\* name, if known, does not occur in the session's application id.
C11_Scenario ==
    /\ sessions = << SessionPool[1] >>
    /\ WindowCandidates(processes, ForegroundProcessName) = <<>>
    /\ \/ ForegroundProcessName = Null
       \/ ~Contains(ToLower(sessions[1].appId), ForegroundProcessName)

\* C11: in the Spotify-only scenario the one candidate has artist 'Spotify'
\* and score exactly 80, and getCurrentMediaSession returns the session built
\* from it.
C11_SpotifyOnlyScoresBase ==
    (pc = "done" /\ C11_Scenario)
        => /\ Len(candidates) = 1
           /\ candidates[1].Session.Artist = <<"Spotify">>
           /\ candidates[1].Score = 80
           /\ result = MediaSessionOf(candidates[1].Session)

\* C12: getCurrentMediaSession never rejects, and a call in which creating
\* the temp script failed, the PowerShell run failed, or the output could
\* not be parsed resolves to null.
C12_DetectNeverThrows ==
    /\ outcome # "rejected"
    /\ pc = "done" => outcome = "resolved"
    /\ (pc = "done" /\ fault # "none") => result = NoSession

\* C12 witness: a call has ended after the PowerShell run failed although
\* the script had already chosen a best candidate.
C12_Witness ==
    /\ pc = "done"
    /\ fault = "exec"
    /\ best # <<>>
    /\ outcome = "resolved"
    /\ result = NoSession

\* The candidate session i of the manager contributes when its loop body is
\* run on its own: a set with no or one element.
OwnCandidates(i) ==
    LET cs == SmtcSessionCandidates(ManagerSessions[i], ForegroundProcessName,
                                    condIsCommand)
    IN  { cs[k] : k \in 1..Len(cs) }

HungSessions ==
    { i \in 1..Len(ManagerSessions) :
         ManagerSessions[i].info = "ok" /\ ManagerSessions[i].propsOp.final = "Started" }

\* C14: no wait of the script sleeps more than TimeoutMs/PollMs = 100 times.
\* When the session-manager request never completes, its wait sleeps 100
\* times, no transport candidate exists, and after the window loop the
\* candidates are those of the windows.  When a property fetch never
\* completes, that session contributes nothing and every other session
\* contributes what it contributes on its own.
C14_WaitIsBounded ==
    /\ \A k \in 1..Len(waits) : waits[k] <= TimeoutMs \div PollMs
    /\ (mgrOp.final = "Started" /\ waits # <<>>)
          => /\ waits = << TimeoutMs \div PollMs >>
             /\ \A c \in Candidates : c.adapter # "smtc"
    /\ (mgrOp.final = "Started" /\ pc = "select")
          => candidates = WindowCandidates(processes, ForegroundProcessName)
    /\ pc = "windows"
          => /\ \A i \in HungSessions :
                   /\ OwnCandidates(i) = {}
                   /\ ~\E c \in Candidates :
                          c.Session.AppName = ManagerSessions[i].appId
                /\ Cardinality(HungSessions)
                      <= Cardinality({ k \in 1..Len(waits) :
                                          waits[k] = TimeoutMs \div PollMs })
             /\ \A i \in 1..Len(ManagerSessions) : OwnCandidates(i) \subseteq Candidates

\* C14 witness: the session-manager request never completed, the wait gave
\* up after 100 sleeps, and the window loop still delivered a candidate.
C14_Witness ==
    /\ pc = "select"
    /\ mgrOp = OpHung
    /\ sessions # <<>>
    /\ waits = << 100 >>
    /\ candidates # <<>>

\* The sessions the rule of C15 chooses: the first whose application id
\* contains the foreground process name; else the first reporting Playing;
\* else all sessions for 'play' and none for any other action.  Sessions
\* whose playback info cannot be read are passed over, as the script does.
C15_RuleTargets ==
    LET fg == IF foregroundProcess = Null THEN Null ELSE ToLower(foregroundProcess)
    IN  IF ForegroundTarget(sessions, fg) # 0 THEN { ForegroundTarget(sessions, fg) }
        ELSE IF PlayingTarget(sessions) # 0 THEN { PlayingTarget(sessions) }
        ELSE IF action = "play" THEN 1..Len(sessions)
        ELSE {}

\* C15: the native command goes to the sessions the rule chooses and to no
\* other session: every command issued went to a chosen session, and once
\* the SMTC section has run with a manager, every chosen session whose call
\* does not throw has been sent the command.
C15_TargetResolutionOrder ==
    /\ \A k \in 1..Len(ctl.sent) : ctl.sent[k][1] \in C15_RuleTargets
    /\ ( /\ ctl.pc \in {"keys", "output", "parse"}
         /\ WaitAsyncOperation(mgrOp, ControlTimeoutMs, PollMs).completed )
          => \A i \in C15_RuleTargets :
                sessions[i].cmd # "throws"
                   => \E k \in 1..Len(ctl.sent) : ctl.sent[k] = << i, action >>

\* The script has passed its keybd_event section.
PassedKeySection ==
    \/ ctl.pc \in {"appcommand", "output", "parse"}
    \/ ctl.pc = "done" /\ ctl.fault = "none"

NativeSucceeded ==
    \E k \in 1..Len(ctl.sent) : sessions[ctl.sent[k][1]].cmd = "ok"

\* C17: controlMedia never rejects; a call whose script ran resolves to true
\* when a native command or the key injection succeeded, and a call in which
\* neither succeeded resolves to false.
C17_ResultReflectsEitherPath ==
    /\ ctl.outcome # "rejected"
    /\ ctl.pc = "done" => ctl.outcome = "resolved"
    /\ (ctl.pc = "done" /\ ctl.fault = "none" /\ (NativeSucceeded \/ ctl.keys # <<>>))
          => ctl.result = TRUE
    /\ (ctl.pc = "done" /\ ~NativeSucceeded /\ ctl.keys = <<>>)
          => ctl.result = FALSE

\* C18: when an invocation of any of the five functions has returned, none
\* of the temp files it wrote is still there as it wrote it.
C18_TempFilesRemoved ==
    \A c \in 1..MaxCalls :
        calls[c].pc = "done"
            => \A p \in calls[c].wrote : [ path |-> p, writer |-> c ] \notin files

\* C20: no two invocations in flight hold the same temp script path.
C20_NoSharedTempFile ==
    \A c, d \in InFlight :
        (c # d /\ calls[c].psPath # NoPath) => calls[c].psPath # calls[d].psPath

\* C19: a refresh whose detection resolved to null leaves mediaSession as it
\* is when a session is displayed: in every step in which such a refresh
\* runs its continuation, mediaSession does not change.
C19_NullRefreshKeepsSession ==
    [][ \A t \in 1..MaxTasks :
           ( /\ tasks[t].pc = "resolved"
             /\ tasks'[t].pc # "resolved"
             /\ tasks[t].session = NoneDisplayed
             /\ ui.mediaSession # NoneDisplayed )
               => ui'.mediaSession = ui.mediaSession ]_vars

\* C21: a returned session of source type video whose candidate title holds
\* a bracketed 11-character token has that token as videoId, and its title
\* is the candidate title with the token removed.
C21_VideoIdRoundTrip ==
    (pc = "done" /\ stdout # <<>>) =>
        LET s == stdout[1]
        IN  ( /\ result.sourceType = "video"
              /\ Contains(s.Title, <<VideoIdToken>>) )
                => /\ result.videoId = <<VideoIdText>>
                   /\ result.title = Trim(RemoveFirst(s.Title, VideoIdToken))

\* The candidates of the window loop among $candidates.
WindowTitleCandidates ==
    { candidates[i] : i \in { j \in 1..Len(candidates) : candidates[j].adapter = "window" } }

\* C22: after the window loop, every window of a registered application
\* whose title matches the paused pattern has a candidate titled
\* "Media Paused" with the display name as artist, IsPlaying false and
\* CanPause false; and no window candidate with IsPlaying false has
\* CanPause true.
C22_PausedCandidateShape ==
    pc = "select" =>
        /\ \A c \in WindowTitleCandidates : ~c.Session.IsPlaying => ~c.Session.CanPause
        /\ \A k \in 1..Len(processes) :
              LET name == ToLower(processes[k].ProcessName)
              IN  (name \in MediaApps /\ IsPausedTitle(name, processes[k].MainWindowTitle))
                    => \E c \in WindowTitleCandidates :
                          /\ c.Session.AppName = processes[k].ProcessName
                          /\ c.Session.Title = <<"Media Paused">>
                          /\ c.Session.Artist = DisplayName(name)
                          /\ ~c.Session.IsPlaying
                          /\ ~c.Session.CanPause

\* C23: after the window loop, every window of a registered application
\* whose title matches the entry's title pattern and not its paused pattern
\* has a playing candidate.
C23_RegistryDrivesAdapter ==
    pc = "select" =>
        \A k \in 1..Len(processes) :
            LET name == ToLower(processes[k].ProcessName)
                title == processes[k].MainWindowTitle
            IN  ( /\ name \in MediaApps
                  /\ TitlePatternAt(name, title) # 0
                  /\ ~IsPausedTitle(name, title) )
                    => \E c \in WindowTitleCandidates :
                          /\ c.Session.AppName = processes[k].ProcessName
                          /\ c.Session.IsPlaying

\* C24, the loop of mediaUtils.ts: a window yields at most one candidate, and
\* none that is playing when its title matches the paused pattern.
C24_ExtensionLoop ==
    pc = "select" =>
        /\ Cardinality(WindowTitleCandidates) <= Len(processes)
        /\ \A k \in 1..Len(processes) :
              LET name == ToLower(processes[k].ProcessName)
                  cs == WindowCandidatesOf(processes[k], ForegroundProcessName)
              IN  /\ Len(cs) <= 1
                  /\ \A i \in 1..Len(cs) : cs[i] \in WindowTitleCandidates
                  /\ IsPausedTitle(name, processes[k].MainWindowTitle)
                        => \A i \in 1..Len(cs) : ~cs[i].Session.IsPlaying

\* C24, the loop of test-actual-script.ps1, likewise.
C24_TestScriptLoop ==
    test.pc = "done" =>
        /\ Len(test.candidates) <= Len(processes)
        /\ \A k \in 1..Len(processes) :
              LET name == ToLower(processes[k].ProcessName)
                  cs == TestCandidatesOf(processes[k])
              IN  /\ Len(cs) <= 1
                  /\ \A i \in 1..Len(cs) : \E j \in 1..Len(test.candidates) :
                                              test.candidates[j] = cs[i]
                  /\ TestPausedPattern(name, processes[k].MainWindowTitle)
                        => \A i \in 1..Len(cs) : ~cs[i].Session.IsPlaying

\* C24: for every window exactly one of paused, playing and no-match is
\* selected, the paused pattern first: each window contributes at most one
\* candidate, and a title that matches the paused pattern is never reported
\* as playing.
C24_OneOutcomePerWindow == C24_ExtensionLoop /\ C24_TestScriptLoop

\* C25: whenever createTempPsFile returns a path, no file existed under that
\* path before the call wrote it.
C25_CreateIsExclusive ==
    [][ \A c \in 1..MaxCalls :
           (calls[c].pc = "create" /\ calls'[c].pc = "exec")
               => ~(\E f \in files : f.path = calls'[c].psPath) ]_vars

\* The script has passed its WM_APPCOMMAND block.
PassedAppCommandBlock ==
    \/ ctl.pc \in {"output", "parse"}
    \/ ctl.pc = "done" /\ ctl.fault = "none"

\* C26: once the script has passed its last block, the WM_APPCOMMAND
\* MEDIA_PLAY broadcast has been sent exactly when the action is 'play' and
\* no transport session was used.
C26_AppCommandOnlyForPlay ==
    PassedAppCommandBlock =>
        (ctl.appCommands # <<>> <=> (action = "play" /\ ~ctl.usedSmTc))

\* C27: once the script has passed its keybd_event section, the player of a
\* session that takes both native commands and media keys has performed at
\* most one command; when it is the target, 'next' has advanced it by one
\* track, 'toggle' has changed its play state, and 'pause' on a playing
\* session has left it paused.
C27_ActionAppliedOnce ==
    PassedKeySection =>
        \A i \in 1..Len(ctl.players) :
            (sessions[i].cmd = "ok" /\ i = currentSession) =>
                /\ ctl.players[i].applied <= 1
                /\ (i = ctl.target /\ action = "next") => ctl.players[i].track = 1
                /\ (i = ctl.target /\ action = "toggle")
                      => ctl.players[i].playing = ~(sessions[i].status = "Playing")
                /\ (i = ctl.target /\ action = "pause" /\ sessions[i].status = "Playing")
                      => ~ctl.players[i].playing

\* C28: the continuation of a refresh that started before a refresh already
\* applied does not change the displayed mediaSession and volume.
C28_LatestStartedRefreshWins ==
    [][ \A t \in 1..MaxTasks :
           ( /\ tasks[t].pc = "resolved"
             /\ tasks'[t].pc # "resolved"
             /\ tasks[t].stale )
               => /\ ui'.mediaSession = ui.mediaSession
                  /\ ui'.volume = ui.volume ]_vars

\* C29: after every step, isLoading is true while a handleMediaControl or
\* handleVolumeControl call has set it and not yet run its finally block,
\* and false when no handler and no refresh is in flight.
C29_LoadingWhileHandlerInFlight ==
    [][ /\ (\E t \in 1..MaxTasks : /\ tasks'[t].kind \in {"media", "volume"}
                                   /\ tasks'[t].pc # "idle")
              => ui'.isLoading
        /\ (\A t \in 1..MaxTasks : tasks'[t].pc = "idle") => ~ui'.isLoading ]_vars

\* C30: when setVolume(v) has succeeded and the getVolume call after it has
\* read the device, getVolume returns v for every v in 0..100; and after a
\* successful setVolume of any integer the device holds, in both channels,
\* the level computed from the value clamped to 0..100.
C30_VolumeRoundTrip ==
    /\ (vol.pc = "got" /\ vol.setOk /\ vol.getOk /\ vol.arg \in 0..100)
          => vol.got = vol.arg
    /\ (vol.pc \in {"setDone", "get", "got"} /\ vol.setOk)
          => /\ device.hi = device.lo
             /\ device.lo = (Clamp(vol.arg) * FullScale) \div 100

====
